---------------------------- MODULE Spec2Model ----------------------------
(***************************************************************************)
(* A model of the request builders and validated types of tgbot:           *)
(*   - methods/send/voice.rs   SendVoice (multipart form builder)          *)
(*   - methods/updates.rs      GetUpdates, SetWebhook, DeleteWebhook,      *)
(*                             GetWebhookInfo (JSON / empty requests)      *)
(*   - types/bot_command.rs    BotCommand::new (length validation),        *)
(*                             BotCommandScope (tagged serde conversions)  *)
(*   - types/reply_markup/force_reply.rs  ForceReply (JSON markup)         *)
(*   - types/game.rs, types/inline_mode/mod.rs  the response models Game,  *)
(*                             GameHighScore, InlineQuery,                 *)
(*                             ChosenInlineResult (deserialization)        *)
(*   - types/input_media/document.rs, types/inline_mode/message_content.rs *)
(*                             InputMediaDocument, InputMessageContent*    *)
(*                             (JSON builders)                             *)
(* Request, Form and the primitive conversions live in request.rs and      *)
(* types/, which are modelled from the specification and the unit tests.   *)
(***************************************************************************)
EXTENDS Integers, Sequences, FiniteSets, TLC

VARIABLES
    builder,    \* the Method value under construction (Rust `self`)
    request,    \* Option<Request>: the result of the last into_request
    error,      \* Option<error>: the error of the last failing setter / constructor
    last,       \* history: the last call made, its argument and whether it returned Ok
    called,     \* history: the setters called on the builder, each with its last argument
    consumed,   \* history: whether into_request was called on the value in `builder`
    command,    \* Option<BotCommand>: the value returned by the last BotCommand::new
    json,       \* Option<serde_json::Value>: the document last serialized or received
    parsed,     \* Option<T>: the value returned by the last deserialization
    replaced    \* history: whether the last setter call followed a call of the
                \* same setter with another argument

vars == <<builder, request, error, last, called, consumed, command, json, parsed, replaced>>

----------------------------------------------------------------------------
(* Option<T> *)

None == [some |-> FALSE]

Some(v) == [some |-> TRUE, val |-> v]

is_some(o) == o.some

is_none(o) == ~o.some

----------------------------------------------------------------------------
(* Text helpers *)

BoolText(b) == IF b THEN "true" ELSE "false"

\* serde_json's rendering of a string without characters that need an escape
JsonString(s) == "\"" \o s \o "\""

RECURSIVE Join(_, _)
Join(parts, sep) ==
    IF Len(parts) = 0 THEN ""
    ELSE IF Len(parts) = 1 THEN parts[1]
    ELSE parts[1] \o sep \o Join(Tail(parts), sep)

\* a JSON object from the sequence of its rendered members
JsonObject(members) == "{" \o Join(members, ",") \o "}"

JsonArray(items) == "[" \o Join(items, ",") \o "]"

JsonMember(key, text) == JsonString(key) \o ":" \o text

\* the members of a struct whose optional fields carry
\* #[serde(skip_serializing_if = "Option::is_none")]
SkipNone(members) == SelectSeq(members, LAMBDA m : m.present)

\* a field of type Option<T> carrying skip_serializing_if; `text` is the JSON
\* text of the value it holds, read only when there is one
OptionMember(key, o, text) ==
    [key |-> key, present |-> is_some(o), text |-> IF is_some(o) THEN text ELSE ""]

MemberTexts(members) == [i \in 1..Len(members) |-> JsonMember(members[i].key, members[i].text)]

----------------------------------------------------------------------------
(* Integer (i64) and u64 values.  A number is hi * 2^62 + lo with a small  *)
(* lo, so that values around 2^63 and 2^64 are representable.              *)

MaxInt == 1

I64(n) == [hi |-> 0, lo |-> n]

\* the decimal text of an Integer (Display for i64, serde_json for numbers)
IntegerText(v) ==
    IF v.hi = 0 THEN ToString(v.lo)
    ELSE ToString(v.hi) \o "*2^62" \o (IF v.lo < 0 THEN "" ELSE "+") \o ToString(v.lo)

\* the Integer arguments the callers pass
IntegerValues == {I64(n) : n \in 0..MaxInt}

----------------------------------------------------------------------------
(* request.rs: Form, FormValue, Request, RequestMethod, RequestBody *)

\* FormValue::Text / FormValue::File
TextValue(s) == [kind |-> "Text", text |-> s]

FileValue(f) == [kind |-> "File", file |-> f]

get_text(v) == IF v.kind = "Text" THEN Some(v.text) ELSE None

get_file(v) == IF v.kind = "File" THEN Some(v.file) ELSE None

\* Form::new: no field
FormNew == [fields |-> <<>>]

\* Form::insert_field: HashMap::insert, the last value of a name wins
insert_field(form, name, value) ==
    [fields |-> [n \in (DOMAIN form.fields) \cup {name} |->
                    IF n = name THEN value ELSE form.fields[n]]]

\* Form::remove_field: HashMap::remove, a no-op when the name is absent
remove_field(form, name) ==
    [fields |-> [n \in (DOMAIN form.fields) \ {name} |-> form.fields[n]]]

contains_key(form, name) == name \in DOMAIN form.fields

\* Request::form / Request::json / Request::empty
RequestForm(method, form) ==
    [method |-> method, verb |-> "Post", body |-> [kind |-> "Form", form |-> form]]

RequestJson(method, data) ==
    [method |-> method, verb |-> "Post", body |-> [kind |-> "Json", data |-> data]]

RequestEmpty(method) ==
    [method |-> method, verb |-> "Get", body |-> [kind |-> "Empty"]]

get_method(req) == req.verb

into_body(req) == req.body

\* Request::build_url: format!("{}/bot{}/{}", base_url, token, method)
build_url(req, base_url, token) == base_url \o "/bot" \o token \o "/" \o req.method

----------------------------------------------------------------------------
(* types: ChatId, InputFile, ParseMode, TextEntity, ReplyMarkup *)

ChatIdInteger(n) == [kind |-> "Id", id |-> n]

ChatIdUsername(s) == [kind |-> "Username", name |-> s]

\* From<ChatId> for FormValue: the text of the id or of the username
ChatIdValue(c) == TextValue(IF c.kind = "Id" THEN IntegerText(c.id) ELSE c.name)

InputFileId(s) == [kind |-> "Id", id |-> s]

InputFileUrl(s) == [kind |-> "Url", url |-> s]

\* Display for ParseMode: the variant's name
ParseModes == {"Markdown", "MarkdownV2"}

ParseModeText(m) ==
    CASE m = "Markdown" -> "Markdown"
      [] m = "MarkdownV2" -> "MarkdownV2"
      [] m = "Html" -> "HTML"

\* TextEntity::bold(offset..offset + length)
TextEntityBold(offset, length) == [type |-> "bold", offset |-> offset, length |-> length]

TextEntityJson(e) ==
    JsonObject(<<JsonMember("type", JsonString(e.type)),
                 JsonMember("offset", ToString(e.offset)),
                 JsonMember("length", ToString(e.length))>>)

Ok(v) == [ok |-> TRUE, val |-> v]

Err(e) == [ok |-> FALSE, err |-> e]

\* serialize_text_entities: serde_json::to_string of the slice, or
\* TextEntityError::Serialize when serde_json fails
serialize_text_entities(value) ==
    {Ok(JsonArray([i \in 1..Len(value) |-> TextEntityJson(value[i])])),
     Err("TextEntityError::Serialize")}

----------------------------------------------------------------------------
(* types/reply_markup/force_reply.rs *)

ForceReplyNew(force_reply) ==
    [type |-> "ForceReply", force_reply |-> force_reply, input_field_placeholder |-> None,
     selective |-> None]

ForceReply_input_field_placeholder(self, value) ==
    [self EXCEPT !.input_field_placeholder = Some(value)]

\* mutant: a selective of false is left out
ForceReply_selective_when_true(self, selective) ==
    IF selective THEN [self EXCEPT !.selective = Some(TRUE)] ELSE self

ForceReply_selective(self, selective) == [self EXCEPT !.selective = Some(selective)]

\* #[derive(Serialize)] for ForceReply: the fields in declaration order,
\* the optional ones skipped when None
ForceReplyJson(self) ==
    JsonObject(MemberTexts(SkipNone(<<
        [key |-> "force_reply", present |-> TRUE, text |-> BoolText(self.force_reply)],
        OptionMember("input_field_placeholder", self.input_field_placeholder,
                     JsonString(self.input_field_placeholder.val)),
        OptionMember("selective", self.selective, BoolText(self.selective.val))>>)))

\* ReplyMarkup::serialize: serde_json::to_string of the markup, or
\* ReplyMarkupError::Serialize when serde_json fails
ReplyMarkupSerialize(value) == {Ok(ForceReplyJson(value)), Err("ReplyMarkupError::Serialize")}

----------------------------------------------------------------------------
(* methods/send/voice.rs *)

\* mutant: the file is stored under the field name of another method
SendVoiceNew_audio_field(chat_id, voice) ==
    LET form0 == FormNew
        form1 == insert_field(form0, "chat_id", ChatIdValue(chat_id))
        form2 == insert_field(form1, "audio", FileValue(voice))
    IN  [type |-> "SendVoice", form |-> form2]

SendVoiceNew(chat_id, voice) ==
    LET form0 == FormNew
        form1 == insert_field(form0, "chat_id", ChatIdValue(chat_id))
        form2 == insert_field(form1, "voice", FileValue(voice))
    IN  [type |-> "SendVoice", form |-> form2]

\* mutant: the first caption inserted is kept
SendVoice_caption_keeps_first(self, value) ==
    IF contains_key(self.form, "caption") THEN self
    ELSE [self EXCEPT !.form = insert_field(self.form, "caption", TextValue(value))]

SendVoice_caption(self, value) ==
    [self EXCEPT !.form = insert_field(self.form, "caption", TextValue(value))]

\* the error a fallible setter returns through `?`, with the builder as it is
\* at that point, when it is dropped
Failed(err, self) == [ok |-> FALSE, err |-> err, self |-> self]

\* mutant: caption_entities leaves parse_mode in the form
SendVoice_caption_entities_keeps_parse_mode(self, serialized) ==
    IF ~serialized.ok THEN Failed(serialized.err, self)
    ELSE Ok([self EXCEPT !.form =
                insert_field(self.form, "caption_entities", TextValue(serialized.val))])

\* mutant: parse_mode is removed before the entities are serialized
SendVoice_caption_entities_removes_first(self, serialized) ==
    LET form1 == remove_field(self.form, "parse_mode")
        form2 == insert_field(form1, "caption_entities", TextValue(serialized.val))
    IN  IF ~serialized.ok THEN Failed(serialized.err, [self EXCEPT !.form = form1])
        ELSE Ok([self EXCEPT !.form = form2])

\* `serialized` is the value of serialize_text_entities(value); the `?` returns
\* the error before insert_field is called
SendVoice_caption_entities(self, serialized) ==
    IF ~serialized.ok THEN Failed(serialized.err, self)
    ELSE LET form1 == insert_field(self.form, "caption_entities", TextValue(serialized.val))
             form2 == remove_field(form1, "parse_mode")
         IN  Ok([self EXCEPT !.form = form2])

\* mutant: parse_mode leaves caption_entities in the form
SendVoice_parse_mode_keeps_entities(self, value) ==
    [self EXCEPT !.form =
        insert_field(self.form, "parse_mode", TextValue(ParseModeText(value)))]

SendVoice_parse_mode(self, value) ==
    LET form1 == insert_field(self.form, "parse_mode", TextValue(ParseModeText(value)))
        form2 == remove_field(form1, "caption_entities")
    IN  [self EXCEPT !.form = form2]

\* mutant: the form is built anew with the mandatory fields and the duration
SendVoice_duration_rebuilds_form(self, value) ==
    LET form0 == FormNew
        form1 == insert_field(form0, "chat_id", self.form.fields["chat_id"])
        form2 == insert_field(form1, "voice", self.form.fields["voice"])
    IN  [self EXCEPT !.form = insert_field(form2, "duration", TextValue(IntegerText(value)))]

SendVoice_duration(self, value) ==
    [self EXCEPT !.form = insert_field(self.form, "duration", TextValue(IntegerText(value)))]

SendVoice_disable_notification(self, value) ==
    [self EXCEPT !.form =
        insert_field(self.form, "disable_notification", TextValue(BoolText(value)))]

SendVoice_reply_to_message_id(self, value) ==
    [self EXCEPT !.form =
        insert_field(self.form, "reply_to_message_id", TextValue(IntegerText(value)))]

\* mutant: the flag is stored as Debug prints it in a struct
SendVoice_allow_sending_without_reply_capitalized(self, value) ==
    [self EXCEPT !.form =
        insert_field(self.form, "allow_sending_without_reply",
                     TextValue(IF value THEN "True" ELSE "False"))]

SendVoice_allow_sending_without_reply(self, value) ==
    [self EXCEPT !.form =
        insert_field(self.form, "allow_sending_without_reply", TextValue(BoolText(value)))]

\* `serialized` is the value of value.into().serialize()
SendVoice_reply_markup(self, serialized) ==
    IF ~serialized.ok THEN Failed(serialized.err, self)
    ELSE Ok([self EXCEPT !.form =
                insert_field(self.form, "reply_markup", TextValue(serialized.val))])

SendVoice_into_request(self) == RequestForm("sendVoice", self.form)

----------------------------------------------------------------------------
(* std::time::Duration and the `as i64` cast *)

\* Duration::as_secs: the whole seconds, the sub-second part dropped
as_secs(d) == d.secs

\* `as i64` of a u64: the value modulo 2^64 taken in [-2^63, 2^63)
as_i64(u) ==
    IF u.hi > 2 \/ (u.hi = 2 /\ u.lo >= 0) THEN [hi |-> u.hi - 4, lo |-> u.lo] ELSE u

Duration(secs, nanos) == [secs |-> secs, nanos |-> nanos]

----------------------------------------------------------------------------
(* types: AllowedUpdate, serialized in snake_case *)

AllowedUpdates == {"Message", "EditedMessage"}

AllowedUpdateText(u) ==
    CASE u = "Message" -> "message"
      [] u = "EditedMessage" -> "edited_message"
      [] u = "ChannelPost" -> "channel_post"

\* the orders in which a HashSet may be iterated
IterationOrders(set) ==
    {order \in [1..Cardinality(set) -> set] :
        \A i, j \in 1..Cardinality(set) : i # j => order[i] # order[j]}

\* the elements serde writes for a HashSet<AllowedUpdate> iterated in `order`
AllowedUpdateItems(order) == [i \in 1..Len(order) |-> JsonString(AllowedUpdateText(order[i]))]

\* serde's rendering of a HashSet<AllowedUpdate> iterated in `order`
AllowedUpdatesJson(order) == JsonArray(AllowedUpdateItems(order))

----------------------------------------------------------------------------
(* methods/updates.rs: GetUpdates *)

GetUpdatesDefault ==
    [type |-> "GetUpdates", offset |-> None, limit |-> None, timeout |-> None,
     allowed_updates |-> None]

GetUpdates_offset(self, offset) == [self EXCEPT !.offset = Some(offset)]

GetUpdates_limit(self, limit) == [self EXCEPT !.limit = Some(limit)]

GetUpdates_timeout(self, timeout) == [self EXCEPT !.timeout = Some(as_i64(as_secs(timeout)))]

\* mutant: the updates given are added to the set the builder holds
GetUpdates_allowed_updates_extends(self, allowed_updates) ==
    IF is_some(self.allowed_updates)
    THEN [self EXCEPT !.allowed_updates = Some(self.allowed_updates.val \cup allowed_updates)]
    ELSE [self EXCEPT !.allowed_updates = Some(allowed_updates)]

GetUpdates_allowed_updates(self, allowed_updates) ==
    [self EXCEPT !.allowed_updates = Some(allowed_updates)]

\* mutant: the update added replaces the set
GetUpdates_add_allowed_update_replaces(self, allowed_update) ==
    [self EXCEPT !.allowed_updates = Some({allowed_update})]

GetUpdates_add_allowed_update(self, allowed_update) ==
    IF is_some(self.allowed_updates)
    THEN [self EXCEPT !.allowed_updates = Some(self.allowed_updates.val \cup {allowed_update})]
    ELSE [self EXCEPT !.allowed_updates = Some({} \cup {allowed_update})]

\* #[derive(Serialize)] for GetUpdates; `order` is the iteration order of the set
GetUpdatesJson(self, order) ==
    JsonObject(MemberTexts(SkipNone(<<
        OptionMember("offset", self.offset, IntegerText(self.offset.val)),
        OptionMember("limit", self.limit, IntegerText(self.limit.val)),
        OptionMember("timeout", self.timeout, IntegerText(self.timeout.val)),
        OptionMember("allowed_updates", self.allowed_updates, AllowedUpdatesJson(order))>>)))

\* mutant: a GetUpdates without parameters is sent as an empty request
GetUpdates_into_request_empty(self, order) ==
    IF is_none(self.offset) /\ is_none(self.limit) /\ is_none(self.timeout)
       /\ is_none(self.allowed_updates)
    THEN RequestEmpty("getUpdates")
    ELSE RequestJson("getUpdates", GetUpdatesJson(self, order))

GetUpdates_into_request(self, order) == RequestJson("getUpdates", GetUpdatesJson(self, order))

----------------------------------------------------------------------------
(* methods/updates.rs: SetWebhook *)

SetWebhookNew(url) ==
    [type |-> "SetWebhook", url |-> url, certificate |-> None, ip_address |-> None,
     max_connections |-> None, allowed_updates |-> None, drop_pending_updates |-> None]

SetWebhook_certificate(self, certificate) == [self EXCEPT !.certificate = Some(certificate)]

SetWebhook_ip_address(self, ip_address) == [self EXCEPT !.ip_address = Some(ip_address)]

SetWebhook_max_connections(self, max_connections) ==
    [self EXCEPT !.max_connections = Some(max_connections)]

SetWebhook_allowed_updates(self, allowed_updates) ==
    [self EXCEPT !.allowed_updates = Some(allowed_updates)]

SetWebhook_add_allowed_update(self, allowed_update) ==
    IF is_some(self.allowed_updates)
    THEN [self EXCEPT !.allowed_updates = Some(self.allowed_updates.val \cup {allowed_update})]
    ELSE [self EXCEPT !.allowed_updates = Some({} \cup {allowed_update})]

SetWebhook_drop_pending_updates(self, drop_pending_updates) ==
    [self EXCEPT !.drop_pending_updates = Some(drop_pending_updates)]

\* #[derive(Serialize)] for SetWebhook; `order` is the iteration order of the set
SetWebhookJson(self, order) ==
    JsonObject(MemberTexts(SkipNone(<<
        [key |-> "url", present |-> TRUE, text |-> JsonString(self.url)],
        OptionMember("certificate", self.certificate, JsonString(self.certificate.val)),
        OptionMember("ip_address", self.ip_address, JsonString(self.ip_address.val)),
        OptionMember("max_connections", self.max_connections,
                     IntegerText(self.max_connections.val)),
        OptionMember("allowed_updates", self.allowed_updates, AllowedUpdatesJson(order)),
        OptionMember("drop_pending_updates", self.drop_pending_updates,
                     BoolText(self.drop_pending_updates.val))>>)))

\* mutant: the webhook parameters are sent as a multipart form
SetWebhook_into_request_form(self, order) ==
    RequestForm("setWebhook", insert_field(FormNew, "url", TextValue(self.url)))

SetWebhook_into_request(self, order) == RequestJson("setWebhook", SetWebhookJson(self, order))

----------------------------------------------------------------------------
(* methods/updates.rs: DeleteWebhook, GetWebhookInfo *)

DeleteWebhookDefault == [type |-> "DeleteWebhook", drop_pending_updates |-> None]

DeleteWebhook_drop_pending_updates(self, drop_pending_updates) ==
    [self EXCEPT !.drop_pending_updates = Some(drop_pending_updates)]

\* #[derive(Serialize)] for DeleteWebhook: the field carries no skip attribute,
\* a None is written as null
DeleteWebhookJson(self) ==
    JsonObject(<<JsonMember("drop_pending_updates",
                            IF is_some(self.drop_pending_updates)
                            THEN BoolText(self.drop_pending_updates.val) ELSE "null")>>)

\* mutant: the JSON request is made whether or not the flag was set
DeleteWebhook_into_request_always_json(self) ==
    RequestJson("deleteWebhook", DeleteWebhookJson(self))

\* mutant: the request kind follows the value of the flag
DeleteWebhook_into_request_by_value(self) ==
    IF self.drop_pending_updates = Some(TRUE)
    THEN RequestJson("deleteWebhook", DeleteWebhookJson(self))
    ELSE RequestEmpty("deleteWebhook")

\* mutant: the JSON branch names another method
DeleteWebhook_into_request_other_name(self) ==
    IF is_some(self.drop_pending_updates)
    THEN RequestJson("setWebhook", DeleteWebhookJson(self))
    ELSE RequestEmpty("deleteWebhook")

DeleteWebhook_into_request(self) ==
    IF is_some(self.drop_pending_updates)
    THEN RequestJson("deleteWebhook", DeleteWebhookJson(self))
    ELSE RequestEmpty("deleteWebhook")

GetWebhookInfoValue == [type |-> "GetWebhookInfo"]

GetWebhookInfo_into_request(self) == RequestEmpty("getWebhookInfo")

----------------------------------------------------------------------------
(* types/bot_command.rs.  A String is `ascii` one-byte characters followed *)
(* by `wide` two-byte characters (UTF-8).                                  *)

MIN_NAME_LEN == 1

MAX_NAME_LEN == 32

MIN_DESCRIPTION_LEN == 3

MAX_DESCRIPTION_LEN == 256

Str(ascii, wide) == [ascii |-> ascii, wide |-> wide]

\* String::len: the length in bytes
StrLen(s) == s.ascii + 2 * s.wide

\* s.chars().count(): the length in characters
CharCount(s) == s.ascii + s.wide

BadNameLen(len) == [variant |-> "BadNameLen", len |-> len]

BadDescriptionLen(len) == [variant |-> "BadDescriptionLen", len |-> len]

\* mutant: the description is checked before the name
BotCommandNew_description_first(name, description) ==
    LET name_len == StrLen(name)
        description_len == StrLen(description)
    IN  IF ~(MIN_DESCRIPTION_LEN <= description_len /\ description_len <= MAX_DESCRIPTION_LEN)
        THEN Err(BadDescriptionLen(description_len))
        ELSE IF ~(MIN_NAME_LEN <= name_len /\ name_len <= MAX_NAME_LEN)
        THEN Err(BadNameLen(name_len))
        ELSE Ok([command |-> name, description |-> description])

BotCommandNew(name, description) ==
    LET name_len == StrLen(name)
        description_len == StrLen(description)
    IN  IF ~(MIN_NAME_LEN <= name_len /\ name_len <= MAX_NAME_LEN)
        THEN Err(BadNameLen(name_len))
        ELSE IF ~(MIN_DESCRIPTION_LEN <= description_len
                  /\ description_len <= MAX_DESCRIPTION_LEN)
        THEN Err(BadDescriptionLen(description_len))
        ELSE Ok([command |-> name, description |-> description])

BotCommand_name(self) == self.command

BotCommand_description(self) == self.description

\* impl fmt::Display for BotCommandError
BotCommandErrorText(e) ==
    IF e.variant = "BadNameLen"
    THEN "command name can have a length of " \o ToString(MIN_NAME_LEN) \o " up to "
         \o ToString(MAX_NAME_LEN) \o " characters, got " \o ToString(e.len)
    ELSE "command description can have a length of " \o ToString(MIN_DESCRIPTION_LEN)
         \o " up to " \o ToString(MAX_DESCRIPTION_LEN) \o " characters, got "
         \o ToString(e.len)

----------------------------------------------------------------------------
(* serde_json::Value and the derived conversions of the primitive types *)

\* a Value of kind j: Null, Bool, Number, String, Array (a sequence) or Object
\* (a map from keys to Values), what it holds stored under the name of the kind
JsonValue(kind, v) ==
    CASE kind = "Bool" -> [j |-> "Bool", Bool |-> v]
      [] kind = "Number" -> [j |-> "Number", Number |-> v]
      [] kind = "String" -> [j |-> "String", String |-> v]
      [] kind = "Array" -> [j |-> "Array", Array |-> v]
      [] kind = "Object" -> [j |-> "Object", Object |-> v]

\* Deserialize for Integer (i64): a JSON number that is an integer within i64
IntegerDeserialize(v) ==
    IF v.j = "Number" /\ "hi" \in DOMAIN v.Number /\ v.Number.hi < 2
    THEN Ok(v.Number)
    ELSE Err("invalid type: expected i64")

\* #[serde(untagged)] Serialize for ChatId: the bare id or the bare username
ChatIdSerialize(c) ==
    IF c.kind = "Id" THEN JsonValue("Number", c.id) ELSE JsonValue("String", c.name)

\* #[serde(untagged)] Deserialize for ChatId: the first variant that accepts
ChatIdDeserialize(v) ==
    IF IntegerDeserialize(v).ok THEN Ok(ChatIdInteger(v.Number))
    ELSE IF v.j = "String" THEN Ok(ChatIdUsername(v.String))
    ELSE Err("data did not match any variant of untagged enum ChatId")

----------------------------------------------------------------------------
(* types/bot_command.rs: BotCommandScope *)

ScopeVariants ==
    {"Default", "AllPrivateChats", "AllGroupChats", "AllChatAdministrators",
     "Chat", "ChatAdministrators", "ChatMember"}

\* mutant: the variants keep their names as written (no rename_all)
ScopeTypeName_as_written(variant) == variant

\* #[serde(rename_all = "snake_case")]
ScopeTypeName(variant) ==
    CASE variant = "Default" -> "default"
      [] variant = "AllPrivateChats" -> "all_private_chats"
      [] variant = "AllGroupChats" -> "all_group_chats"
      [] variant = "AllChatAdministrators" -> "all_chat_administrators"
      [] variant = "Chat" -> "chat"
      [] variant = "ChatAdministrators" -> "chat_administrators"
      [] variant = "ChatMember" -> "chat_member"

BotCommandScopeUnit(variant) == [type |-> "BotCommandScope", variant |-> variant]

BotCommandScope_chat(chat_id) ==
    [type |-> "BotCommandScope", variant |-> "Chat", chat_id |-> chat_id]

BotCommandScope_chat_administrators(chat_id) ==
    [type |-> "BotCommandScope", variant |-> "ChatAdministrators", chat_id |-> chat_id]

BotCommandScope_chat_member(chat_id, user_id) ==
    [type |-> "BotCommandScope", variant |-> "ChatMember", chat_id |-> chat_id,
     user_id |-> user_id]

\* #[derive(Serialize)] #[serde(tag = "type")]: the tag, then the variant's fields
BotCommandScopeSerialize(self) ==
    LET tag == JsonValue("String", ScopeTypeName(self.variant))
    IN  JsonValue("Object",
            CASE self.variant \in {"Chat", "ChatAdministrators"} ->
                    [type |-> tag, chat_id |-> ChatIdSerialize(self.chat_id)]
              [] self.variant = "ChatMember" ->
                    [type |-> tag, chat_id |-> ChatIdSerialize(self.chat_id),
                     user_id |-> JsonValue("Number", self.user_id)]
              [] OTHER -> [type |-> tag])

\* #[derive(Deserialize)] #[serde(tag = "type")]: the variant is chosen by the
\* tag, its fields are read by name and other keys are ignored
BotCommandScopeDeserialize(v) ==
    IF v.j # "Object" THEN Err("invalid type: expected internally tagged enum")
    ELSE IF "type" \notin DOMAIN v.Object THEN Err("missing field type")
    ELSE IF v.Object["type"].j # "String" THEN Err("invalid type: expected variant identifier")
    ELSE LET named == {x \in ScopeVariants : ScopeTypeName(x) = v.Object["type"].String}
         IN  IF named = {} THEN Err("unknown variant")
             ELSE LET variant == CHOOSE x \in named : TRUE
                  IN  IF variant \notin {"Chat", "ChatAdministrators", "ChatMember"}
                      THEN Ok(BotCommandScopeUnit(variant))
                      ELSE IF "chat_id" \notin DOMAIN v.Object THEN Err("missing field chat_id")
                      ELSE LET chat_id == ChatIdDeserialize(v.Object["chat_id"])
                           IN  IF ~chat_id.ok THEN chat_id
                               ELSE IF variant = "Chat"
                               THEN Ok(BotCommandScope_chat(chat_id.val))
                               ELSE IF variant = "ChatAdministrators"
                               THEN Ok(BotCommandScope_chat_administrators(chat_id.val))
                               ELSE IF "user_id" \notin DOMAIN v.Object
                               THEN Err("missing field user_id")
                               ELSE LET user_id == IntegerDeserialize(v.Object["user_id"])
                                    IN  IF ~user_id.ok THEN user_id
                                        ELSE Ok(BotCommandScope_chat_member(chat_id.val,
                                                                            user_id.val))

----------------------------------------------------------------------------
(* #[derive(Deserialize)] for the structs of the response models *)

\* a struct field: its name, its type and whether the type is Option<_>
Field(name, ty, optional) == [name |-> name, ty |-> ty, optional |-> optional]

\* the structs of types/ that the response models hold: the keys their
\* documents must carry
RequiredKeys(ty) ==
    CASE ty = "User" -> {"id", "first_name", "is_bot"}
      [] ty = "Location" -> {"latitude", "longitude"}
      [] ty = "PhotoSize" -> {"file_id", "file_unique_id", "width", "height"}
      [] ty = "Animation" -> {"file_id", "file_unique_id", "width", "height", "duration"}
      [] ty = "RawTextEntity" -> {"type", "offset", "length"}

\* #[serde(rename_all = "snake_case")] of InlineQueryChatType
InlineQueryChatTypeName(variant) ==
    CASE variant = "Sender" -> "sender"
      [] variant = "Private" -> "private"
      [] variant = "Group" -> "group"
      [] variant = "Supergroup" -> "supergroup"
      [] variant = "Channel" -> "channel"

\* Deserialize of a field type; Vec1 is a Vec that cannot be empty
RECURSIVE TypeDeserialize(_, _)
TypeDeserialize(ty, v) ==
    CASE ty = "String" ->
            IF v.j = "String" THEN Ok(v.String) ELSE Err("invalid type: expected a string")
      [] ty = "Integer" -> IntegerDeserialize(v)
      [] ty = "InlineQueryChatType" ->
            LET named == {x \in {"Sender", "Private", "Group", "Supergroup", "Channel"} :
                            v.j = "String" /\ InlineQueryChatTypeName(x) = v.String}
            IN  IF named = {} THEN Err("unknown variant")
                ELSE Ok(CHOOSE x \in named : TRUE)
      [] ty \in {"Vec<PhotoSize>", "Vec1<RawTextEntity>"} ->
            LET of == IF ty = "Vec<PhotoSize>" THEN "PhotoSize" ELSE "RawTextEntity"
            IN  IF v.j # "Array" THEN Err("invalid type: expected a sequence")
                ELSE IF \E i \in 1..Len(v.Array) : ~TypeDeserialize(of, v.Array[i]).ok
                THEN Err("invalid element")
                ELSE IF ty = "Vec1<RawTextEntity>" /\ Len(v.Array) = 0
                THEN Err("Cannot produce a Vec1 with a length of zero")
                ELSE Ok([i \in 1..Len(v.Array) |-> TypeDeserialize(of, v.Array[i]).val])
      [] OTHER ->
            IF v.j = "Object" /\ RequiredKeys(ty) \subseteq DOMAIN v.Object
            THEN Ok(v.Object)
            ELSE Err("missing field")

\* mutant: an Option<_> field must be present as well
FieldDeserialize_all_required(field, doc) ==
    IF field.name \notin DOMAIN doc.Object \/ doc.Object[field.name].j = "Null"
    THEN Err("missing field " \o field.name)
    ELSE LET r == TypeDeserialize(field.ty, doc.Object[field.name])
         IN  IF r.ok /\ field.optional THEN Ok(Some(r.val)) ELSE r

\* one field of a struct: a required field must be present, an Option<_>
\* field is None when its key is absent or null
FieldDeserialize(field, doc) ==
    IF field.name \notin DOMAIN doc.Object \/ doc.Object[field.name].j = "Null"
    THEN IF field.optional THEN Ok(None) ELSE Err("missing field " \o field.name)
    ELSE LET r == TypeDeserialize(field.ty, doc.Object[field.name])
         IN  IF r.ok /\ field.optional THEN Ok(Some(r.val)) ELSE r

\* a struct of `type` with the fields of `schema`: an error of one of its
\* fields, or the value holding every field (keys outside the schema are ignored)
StructDeserialize(type, schema, doc) ==
    IF doc.j # "Object" THEN Err("invalid type: expected a map")
    ELSE LET failed == {i \in 1..Len(schema) : ~FieldDeserialize(schema[i], doc).ok}
             field(n) == schema[CHOOSE i \in 1..Len(schema) : schema[i].name = n]
         IN  IF failed # {}
             THEN FieldDeserialize(schema[CHOOSE i \in failed : \A k \in failed : i <= k], doc)
             ELSE Ok([n \in {schema[i].name : i \in 1..Len(schema)} \cup {"type"} |->
                        IF n = "type" THEN type ELSE FieldDeserialize(field(n), doc).val])

----------------------------------------------------------------------------
(* types/game.rs *)

RawGameSchema ==
    <<Field("title", "String", FALSE), Field("description", "String", FALSE),
      Field("photo", "Vec<PhotoSize>", FALSE), Field("text", "String", TRUE),
      Field("text_entities", "Vec1<RawTextEntity>", TRUE),
      Field("animation", "Animation", TRUE)>>

\* Text::from_raw: the text with its entities, or an error when an entity
\* does not lie within the text
TextFromRaw(data, entities) ==
    IF is_none(entities) THEN Ok([data |-> data, entities |-> None])
    ELSE IF \E i \in 1..Len(entities.val) :
                LET offset == entities.val[i]["offset"].Number.lo
                    length == entities.val[i]["length"].Number.lo
                IN  offset < 0 \/ length < 0 \/ offset + length > Len(data)
    THEN Err("TextEntityError")
    ELSE Ok([data |-> data, entities |-> entities])

\* mutant: the animation of the raw game is not copied
GameDeserialize_without_animation(doc) ==
    LET raw_game == StructDeserialize("RawGame", RawGameSchema, doc)
        text == IF raw_game.ok /\ is_some(raw_game.val.text)
                THEN TextFromRaw(raw_game.val.text.val, raw_game.val.text_entities)
                ELSE Ok(None)
    IN  IF ~raw_game.ok THEN raw_game
        ELSE IF ~text.ok THEN Err("custom: " \o text.err)
        ELSE Ok([type |-> "Game",
                 title |-> raw_game.val.title,
                 description |-> raw_game.val.description,
                 photo |-> raw_game.val.photo,
                 text |-> IF is_some(raw_game.val.text) THEN Some(text.val) ELSE None,
                 animation |-> None])

\* mutant: a text whose entities cannot be combined with it is left out
GameDeserialize_drops_bad_text(doc) ==
    LET raw_game == StructDeserialize("RawGame", RawGameSchema, doc)
        text == IF raw_game.ok /\ is_some(raw_game.val.text)
                THEN TextFromRaw(raw_game.val.text.val, raw_game.val.text_entities)
                ELSE Ok(None)
    IN  IF ~raw_game.ok THEN raw_game
        ELSE Ok([type |-> "Game",
                 title |-> raw_game.val.title,
                 description |-> raw_game.val.description,
                 photo |-> raw_game.val.photo,
                 text |-> IF is_some(raw_game.val.text) /\ text.ok
                          THEN Some(text.val) ELSE None,
                 animation |-> raw_game.val.animation])

\* impl Deserialize for Game: the raw game is read first, then its text and
\* text_entities are combined; D::Error::custom wraps the error of from_raw
GameDeserialize(doc) ==
    LET raw_game == StructDeserialize("RawGame", RawGameSchema, doc)
        text == IF raw_game.ok /\ is_some(raw_game.val.text)
                THEN TextFromRaw(raw_game.val.text.val, raw_game.val.text_entities)
                ELSE Ok(None)
    IN  IF ~raw_game.ok THEN raw_game
        ELSE IF ~text.ok THEN Err("custom: " \o text.err)
        ELSE Ok([type |-> "Game",
                 title |-> raw_game.val.title,
                 description |-> raw_game.val.description,
                 photo |-> raw_game.val.photo,
                 text |-> IF is_some(raw_game.val.text) THEN Some(text.val) ELSE None,
                 animation |-> raw_game.val.animation])

GameHighScoreSchema ==
    <<Field("position", "Integer", FALSE), Field("user", "User", FALSE),
      Field("score", "Integer", FALSE)>>

----------------------------------------------------------------------------
(* types/inline_mode/mod.rs *)

InlineQuerySchema ==
    <<Field("id", "String", FALSE), Field("from", "User", FALSE),
      Field("query", "String", FALSE), Field("offset", "String", FALSE),
      Field("chat_type", "InlineQueryChatType", TRUE), Field("location", "Location", TRUE)>>

ChosenInlineResultSchema ==
    <<Field("result_id", "String", FALSE), Field("from", "User", FALSE),
      Field("location", "Location", TRUE), Field("inline_message_id", "String", TRUE),
      Field("query", "String", FALSE)>>

\* the response models and the serde traits each implements
ResponseModels == {"Game", "GameHighScore", "InlineQuery", "ChosenInlineResult"}

SerdeTraits(type) ==
    CASE type \in ResponseModels -> {"Deserialize"}
      [] type = "BotCommandScope" -> {"Serialize", "Deserialize"}

\* serde_json::from_value::<T>(doc) for a response model T
ResponseDeserialize(type, doc) ==
    CASE type = "Game" -> GameDeserialize(doc)
      [] type = "GameHighScore" -> StructDeserialize(type, GameHighScoreSchema, doc)
      [] type = "InlineQuery" -> StructDeserialize(type, InlineQuerySchema, doc)
      [] type = "ChosenInlineResult" -> StructDeserialize(type, ChosenInlineResultSchema, doc)

----------------------------------------------------------------------------
(* Builders serialized with #[derive(Serialize)]: every optional field is   *)
(* an Option<T> declared with skip_serializing_if = "Option::is_none".      *)

\* a setter of the form `self.field = Some(value); self`
SetOption(self, field, value) == [self EXCEPT ![field] = Some(value)]

\* a field that is always written
Mandatory(key, text) == [key |-> key, present |-> TRUE, text |-> text]

\* serde_json's text of a struct, its fields in declaration order
StructJson(members) == JsonObject(MemberTexts(SkipNone(members)))

\* serde_json's text of a Float with one decimal
FloatText(f) == ToString(f.tenths \div 10) \o "." \o ToString(f.tenths % 10)

Float(tenths) == [tenths |-> tenths]

(* types/input_media/document.rs *)

InputMediaDocumentDefault ==
    [type |-> "InputMediaDocument", caption |-> None, parse_mode |-> None,
     disable_content_type_detection |-> None]

InputMediaDocumentJson(self) ==
    StructJson(<<
        OptionMember("caption", self.caption, JsonString(self.caption.val)),
        OptionMember("parse_mode", self.parse_mode, JsonString(ParseModeText(self.parse_mode.val))),
        OptionMember("disable_content_type_detection", self.disable_content_type_detection,
                     BoolText(self.disable_content_type_detection.val))>>)

(* types/inline_mode/message_content.rs *)

InputMessageContentContactNew(phone_number, first_name) ==
    [type |-> "InputMessageContentContact", phone_number |-> phone_number,
     first_name |-> first_name, last_name |-> None, vcard |-> None]

InputMessageContentContactJson(self) ==
    StructJson(<<
        Mandatory("phone_number", JsonString(self.phone_number)),
        Mandatory("first_name", JsonString(self.first_name)),
        OptionMember("last_name", self.last_name, JsonString(self.last_name.val)),
        OptionMember("vcard", self.vcard, JsonString(self.vcard.val))>>)

InputMessageContentLocationNew(latitude, longitude) ==
    [type |-> "InputMessageContentLocation", latitude |-> latitude, longitude |-> longitude,
     horizontal_accuracy |-> None, live_period |-> None, heading |-> None,
     proximity_alert_radius |-> None]

InputMessageContentLocationJson(self) ==
    StructJson(<<
        Mandatory("latitude", FloatText(self.latitude)),
        Mandatory("longitude", FloatText(self.longitude)),
        OptionMember("horizontal_accuracy", self.horizontal_accuracy,
                     FloatText(self.horizontal_accuracy.val)),
        OptionMember("live_period", self.live_period, IntegerText(self.live_period.val)),
        OptionMember("heading", self.heading, IntegerText(self.heading.val)),
        OptionMember("proximity_alert_radius", self.proximity_alert_radius,
                     IntegerText(self.proximity_alert_radius.val))>>)

InputMessageContentTextNew(message_text) ==
    [type |-> "InputMessageContentText", message_text |-> message_text, entities |-> None,
     parse_mode |-> None, disable_web_page_preview |-> None]

\* mutant: an empty list of entities is not stored
InputMessageContentText_entities_skips_empty(self, entities) ==
    IF Len(entities) = 0 THEN self
    ELSE [self EXCEPT !.entities = Some(entities), !.parse_mode = None]

\* mutant: entities leaves the parse mode in place
InputMessageContentText_entities_keeps_parse_mode(self, entities) ==
    [self EXCEPT !.entities = Some(entities)]

InputMessageContentText_entities(self, entities) ==
    [self EXCEPT !.entities = Some(entities), !.parse_mode = None]

InputMessageContentText_parse_mode(self, parse_mode) ==
    [self EXCEPT !.parse_mode = Some(parse_mode), !.entities = None]

InputMessageContentTextJson(self) ==
    StructJson(<<
        Mandatory("message_text", JsonString(self.message_text)),
        OptionMember("entities", self.entities,
                     JsonArray([i \in 1..Len(self.entities.val) |->
                                   TextEntityJson(self.entities.val[i])])),
        OptionMember("parse_mode", self.parse_mode, JsonString(ParseModeText(self.parse_mode.val))),
        OptionMember("disable_web_page_preview", self.disable_web_page_preview,
                     BoolText(self.disable_web_page_preview.val))>>)

InputMessageContentVenueNew(latitude, longitude, title, address) ==
    [type |-> "InputMessageContentVenue", latitude |-> latitude, longitude |-> longitude,
     title |-> title, address |-> address, foursquare_id |-> None, foursquare_type |-> None,
     google_place_id |-> None, google_place_type |-> None]

InputMessageContentVenueJson(self) ==
    StructJson(<<
        Mandatory("latitude", FloatText(self.latitude)),
        Mandatory("longitude", FloatText(self.longitude)),
        Mandatory("title", JsonString(self.title)),
        Mandatory("address", JsonString(self.address)),
        OptionMember("foursquare_id", self.foursquare_id, JsonString(self.foursquare_id.val)),
        OptionMember("foursquare_type", self.foursquare_type,
                     JsonString(self.foursquare_type.val)),
        OptionMember("google_place_id", self.google_place_id,
                     JsonString(self.google_place_id.val)),
        OptionMember("google_place_type", self.google_place_type,
                     JsonString(self.google_place_type.val))>>)

\* #[derive(derive_more::From)] for InputMessageContent: the variant that
\* wraps the struct
InputMessageContentFrom(value) ==
    [type |-> "InputMessageContent",
     variant |-> CASE value.type = "InputMessageContentContact" -> "Contact"
                   [] value.type = "InputMessageContentLocation" -> "Location"
                   [] value.type = "InputMessageContentText" -> "Text"
                   [] value.type = "InputMessageContentVenue" -> "Venue",
     content |-> value]

\* mutant: the enum is serialized as serde does without #[serde(untagged)],
\* as an object keyed by the name of the variant
InputMessageContentJson_externally_tagged(self) ==
    JsonObject(<<JsonMember(self.variant,
        CASE self.variant = "Contact" -> InputMessageContentContactJson(self.content)
          [] self.variant = "Location" -> InputMessageContentLocationJson(self.content)
          [] self.variant = "Text" -> InputMessageContentTextJson(self.content)
          [] self.variant = "Venue" -> InputMessageContentVenueJson(self.content))>>)

\* #[derive(Serialize)] #[serde(untagged)] for InputMessageContent: the
\* serialization of the struct the variant wraps
InputMessageContentJson(self) ==
    CASE self.variant = "Contact" -> InputMessageContentContactJson(self.content)
      [] self.variant = "Location" -> InputMessageContentLocationJson(self.content)
      [] self.variant = "Text" -> InputMessageContentTextJson(self.content)
      [] self.variant = "Venue" -> InputMessageContentVenueJson(self.content)

\* serde_json::to_string of a builder
to_string(self) ==
    CASE self.type = "InputMediaDocument" -> InputMediaDocumentJson(self)
      [] self.type = "ForceReply" -> ForceReplyJson(self)
      [] self.type = "InputMessageContentContact" -> InputMessageContentContactJson(self)
      [] self.type = "InputMessageContentLocation" -> InputMessageContentLocationJson(self)
      [] self.type = "InputMessageContentText" -> InputMessageContentTextJson(self)
      [] self.type = "InputMessageContentVenue" -> InputMessageContentVenueJson(self)
      [] self.type = "InputMessageContent" -> InputMessageContentJson(self)

----------------------------------------------------------------------------
(* The callers' arguments *)

NewVoiceArgs ==
    {<<ChatIdInteger(I64(1)), InputFileId("file-id")>>,
     <<ChatIdUsername("@channel"), InputFileUrl("https://example.com/voice.ogg")>>}

Captions == {"caption", "other caption"}

EntityLists == {<<>>, <<TextEntityBold(0, 10)>>}

Markups == {ForceReplyNew(TRUE), ForceReply_selective(ForceReplyNew(FALSE), FALSE)}

Urls == {"url", ""}

Certificates == {"cert"}

IpAddresses == {"127.0.0.1"}

\* u64 second counts: small ones, i64::MAX, i64::MAX + 1 and u64::MAX
SecondCounts ==
    {I64(n) : n \in 0..MaxInt}
        \cup {[hi |-> 2, lo |-> -1], [hi |-> 2, lo |-> 0], [hi |-> 4, lo |-> -1]}

Durations == {Duration(secs, nanos) : secs \in SecondCounts, nanos \in {0, 999999999}}

\* the setters of the form `self.field = Some(value)` of each builder, each
\* with the arguments the callers pass
Setters(type) ==
    CASE type = "InputMediaDocument" ->
            [caption |-> {"caption", ""}, parse_mode |-> {"Markdown", "Html"},
             disable_content_type_detection |-> BOOLEAN]
      [] type = "InputMessageContentContact" ->
            [last_name |-> {"Pupkin"}, vcard |-> {"vcard", ""}]
      [] type = "InputMessageContentLocation" ->
            [horizontal_accuracy |-> {Float(0), Float(15)}, live_period |-> IntegerValues,
             heading |-> {I64(MaxInt)}, proximity_alert_radius |-> {I64(0)}]
      [] type = "InputMessageContentText" ->
            [disable_web_page_preview |-> BOOLEAN]
      [] type = "InputMessageContentVenue" ->
            [foursquare_id |-> {"f-id", ""}, foursquare_type |-> {"f-type"},
             google_place_id |-> {"g-id"}, google_place_type |-> {"g-type"}]

\* the duration and the message id a caller passes to SendVoice
VoiceIntegers == {I64(MaxInt)}

ChatIds == {ChatIdInteger(v) : v \in IntegerValues} \cup {ChatIdUsername("@channel")}

Scopes ==
    {BotCommandScopeUnit(variant) :
        variant \in {"Default", "AllPrivateChats", "AllGroupChats", "AllChatAdministrators"}}
        \cup {BotCommandScope_chat(c) : c \in ChatIds}
        \cup {BotCommandScope_chat_administrators(c) : c \in ChatIds}
        \cup {BotCommandScope_chat_member(c, u) : c \in ChatIds, u \in IntegerValues}

----------------------------------------------------------------------------
(* The JSON documents received from the remote API *)

\* the object holding the members that are given (Some)
Document(members) ==
    JsonValue("Object",
              [k \in {n \in DOMAIN members : is_some(members[n])} |-> members[k].val])

\* the values a member takes: the well-formed ones, and when the document
\* need not be fully populated also an absent member and the malformed ones
Choices(full, good, bad) ==
    {Some(v) : v \in good} \cup (IF full THEN {} ELSE {None} \cup {Some(v) : v \in bad})

JsonNull == [j |-> "Null"]

JsonText(t) == JsonValue("String", t)

JsonInteger(n) == JsonValue("Number", I64(n))

JsonFloat(tenths) == JsonValue("Number", [tenths |-> tenths])

UserDocument ==
    Document([id |-> Some(JsonInteger(1)), first_name |-> Some(JsonText("test")),
              is_bot |-> Some(JsonValue("Bool", FALSE))])

LocationDocument ==
    Document([latitude |-> Some(JsonFloat(21)), longitude |-> Some(JsonFloat(30))])

PhotoDocument ==
    Document([file_id |-> Some(JsonText("photo file id")),
              file_unique_id |-> Some(JsonText("photo unique file id")),
              width |-> Some(JsonInteger(200)), height |-> Some(JsonInteger(200))])

AnimationDocument ==
    Document([file_id |-> Some(JsonText("animation file id")),
              file_unique_id |-> Some(JsonText("animation unique file id")),
              width |-> Some(JsonInteger(200)), height |-> Some(JsonInteger(200)),
              duration |-> Some(JsonInteger(24))])

EntityDocument(offset, length) ==
    Document([type |-> Some(JsonText("bold")), offset |-> Some(JsonInteger(offset)),
              length |-> Some(JsonInteger(length))])

\* entity lists that lie within the text "text" and lists that do not
GoodEntities == {<<EntityDocument(0, 4)>>, <<EntityDocument(0, 2), EntityDocument(2, 2)>>}

BadEntities == {<<EntityDocument(2, 10)>>, <<EntityDocument(0, 2), EntityDocument(5, 1)>>}

GameDocuments(full) ==
    {Document([title |-> title, description |-> description, photo |-> photo,
               text |-> text, text_entities |-> text_entities, animation |-> animation]) :
        title \in Choices(full, {JsonText("title")}, {}),
        description \in Choices(full, {JsonText("description")}, {JsonInteger(1)}),
        photo \in Choices(full, {JsonValue("Array", <<PhotoDocument>>)},
                          {JsonValue("Array", <<>>)}),
        text \in Choices(full, {JsonText("text")}, {JsonNull}),
        text_entities \in Choices(full, {JsonValue("Array", e) : e \in GoodEntities},
                                  {JsonValue("Array", e) : e \in BadEntities \cup {<<>>}}),
        animation \in Choices(full, {AnimationDocument}, {})}

GameHighScoreDocuments(full) ==
    {Document([position |-> position, user |-> user, score |-> score]) :
        position \in Choices(full, {JsonInteger(1)}, {JsonFloat(15)}),
        user \in Choices(full, {UserDocument}, {LocationDocument}),
        score \in Choices(full, {JsonInteger(3)}, {JsonText("3")})}

InlineQueryDocuments(full) ==
    {Document([id |-> id, from |-> from, query |-> query, offset |-> offset,
               chat_type |-> chat_type, location |-> location]) :
        id \in Choices(full, {JsonText("query id")}, {}),
        from \in Choices(full, {UserDocument}, {}),
        query \in Choices(full, {JsonText("query string"), JsonText("")}, {}),
        offset \in Choices(full, {JsonText("query offset")}, {JsonNull}),
        chat_type \in Choices(full, {JsonText("private"), JsonText("sender")},
                              {JsonText("secret"), JsonNull}),
        location \in Choices(full, {LocationDocument}, {})}

ChosenInlineResultDocuments(full) ==
    {Document([result_id |-> result_id, from |-> from, location |-> location,
               inline_message_id |-> inline_message_id, query |-> query]) :
        result_id \in Choices(full, {JsonText("result id")}, {JsonInteger(1)}),
        from \in Choices(full, {UserDocument}, {}),
        location \in Choices(full, {LocationDocument}, {JsonNull}),
        inline_message_id \in Choices(full, {JsonText("imi")}, {}),
        query \in Choices(full, {JsonText("q")}, {})}

Documents(type, full) ==
    CASE type = "Game" -> GameDocuments(full)
      [] type = "GameHighScore" -> GameHighScoreDocuments(full)
      [] type = "InlineQuery" -> InlineQueryDocuments(full)
      [] type = "ChosenInlineResult" -> ChosenInlineResultDocuments(full)

----------------------------------------------------------------------------
(* The state machine: a caller builds one Method value at a time, calls    *)
(* its setters in any order and converts it to a Request.                  *)

NoBuilder == [type |-> "None"]

Call(op, arg, ok) == [op |-> op, arg |-> arg, ok |-> ok]

NoCalls == <<>>

\* `called` after setter `name` was called with `arg`
Record(name, arg) ==
    [n \in (DOMAIN called) \cup {name} |-> IF n = name THEN arg ELSE called[n]]

Init ==
    /\ builder = NoBuilder
    /\ request = None
    /\ error = None
    /\ last = Call("none", <<>>, TRUE)
    /\ called = NoCalls
    /\ consumed = FALSE
    /\ command = None
    /\ json = None
    /\ parsed = None
    /\ replaced = FALSE

\* a constructor returned `value`; the caller holds one Method value at a time
Construct(op, arg, value) ==
    /\ builder.type = "None" \/ consumed
    /\ builder' = value
    /\ request' = None
    /\ error' = None
    /\ last' = Call(op, arg, TRUE)
    /\ called' = NoCalls
    /\ consumed' = FALSE
    /\ replaced' = FALSE
    /\ UNCHANGED <<command, json, parsed>>

\* an infallible setter took the builder by value and returned `value`
Set(type, name, arg, value) ==
    /\ builder.type = type
    /\ builder' = value
    /\ last' = Call(name, arg, TRUE)
    /\ called' = Record(name, arg)
    /\ consumed' = FALSE
    /\ replaced' = (last.op = name /\ last.ok /\ last.arg # arg)
    /\ UNCHANGED <<request, error, command, json, parsed>>

\* a fallible setter took the builder by value and returned `result`;
\* on Err the builder is dropped and its history with it
TrySet(type, name, arg, result) ==
    /\ builder.type = type
    /\ builder' = IF result.ok THEN result.val ELSE NoBuilder
    /\ error' = IF result.ok THEN error ELSE Some(result.err)
    /\ last' = Call(name, arg, result.ok)
    /\ called' = IF result.ok THEN Record(name, arg) ELSE NoCalls
    /\ consumed' = FALSE
    /\ replaced' = (result.ok /\ last.op = name /\ last.ok /\ last.arg # arg)
    /\ UNCHANGED <<request, command, json, parsed>>

\* mutant: the value is converted as if its type were Copy
Convert_by_copy(type, req) ==
    /\ builder.type = type
    /\ request' = Some(req)
    /\ last' = Call("into_request", builder, TRUE)
    /\ consumed' = TRUE
    /\ replaced' = FALSE
    /\ UNCHANGED <<builder, error, called, command, json, parsed>>

\* into_request(self) of a type that is not Copy: the builder is moved
Convert(type, req) ==
    /\ builder.type = type
    /\ request' = Some(req)
    /\ builder' = NoBuilder
    /\ last' = Call("into_request", builder, TRUE)
    /\ consumed' = FALSE
    /\ replaced' = FALSE
    /\ UNCHANGED <<error, called, command, json, parsed>>

\* into_request(self) of a Copy type: the caller keeps its copy
ConvertCopy(type, req) ==
    /\ builder.type = type
    /\ request' = Some(req)
    /\ last' = Call("into_request", builder, TRUE)
    /\ consumed' = TRUE
    /\ replaced' = FALSE
    /\ UNCHANGED <<builder, error, called, command, json, parsed>>

(* SendVoice *)

VoiceNew == \E a \in NewVoiceArgs : Construct("SendVoice::new", a, SendVoiceNew(a[1], a[2]))

VoiceCaption ==
    \E v \in Captions : Set("SendVoice", "caption", v, SendVoice_caption(builder, v))

VoiceCaptionEntities ==
    \E v \in EntityLists : \E serialized \in serialize_text_entities(v) :
        TrySet("SendVoice", "caption_entities", v, SendVoice_caption_entities(builder, serialized))

VoiceParseMode ==
    \E v \in ParseModes : Set("SendVoice", "parse_mode", v, SendVoice_parse_mode(builder, v))

VoiceDuration ==
    \E v \in VoiceIntegers : Set("SendVoice", "duration", v, SendVoice_duration(builder, v))

VoiceDisableNotification ==
    \E v \in BOOLEAN :
        Set("SendVoice", "disable_notification", v, SendVoice_disable_notification(builder, v))

VoiceReplyToMessageId ==
    \E v \in VoiceIntegers :
        Set("SendVoice", "reply_to_message_id", v, SendVoice_reply_to_message_id(builder, v))

VoiceAllowSendingWithoutReply ==
    \E v \in BOOLEAN :
        Set("SendVoice", "allow_sending_without_reply", v,
            SendVoice_allow_sending_without_reply(builder, v))

VoiceReplyMarkup ==
    \E v \in Markups : \E serialized \in ReplyMarkupSerialize(v) :
        TrySet("SendVoice", "reply_markup", v, SendVoice_reply_markup(builder, serialized))

VoiceIntoRequest == Convert("SendVoice", SendVoice_into_request(builder))

(* GetUpdates *)

GetUpdatesNew == Construct("GetUpdates::default", <<>>, GetUpdatesDefault)

GetUpdatesOffset ==
    \E v \in IntegerValues : Set("GetUpdates", "offset", v, GetUpdates_offset(builder, v))

GetUpdatesLimit ==
    \E v \in IntegerValues : Set("GetUpdates", "limit", v, GetUpdates_limit(builder, v))

GetUpdatesTimeout ==
    \E v \in Durations : Set("GetUpdates", "timeout", v, GetUpdates_timeout(builder, v))

GetUpdatesAllowedUpdates ==
    \E v \in SUBSET AllowedUpdates :
        Set("GetUpdates", "allowed_updates", v, GetUpdates_allowed_updates(builder, v))

GetUpdatesAddAllowedUpdate ==
    \E v \in AllowedUpdates :
        Set("GetUpdates", "add_allowed_update", v, GetUpdates_add_allowed_update(builder, v))

\* the set a builder's allowed_updates holds, empty when None
UpdatesOf(self) == IF is_some(self.allowed_updates) THEN self.allowed_updates.val ELSE {}

GetUpdatesIntoRequest ==
    /\ builder.type = "GetUpdates"
    /\ \E order \in IterationOrders(UpdatesOf(builder)) :
        Convert("GetUpdates", GetUpdates_into_request(builder, order))

(* SetWebhook *)

SetWebhookCreate == \E url \in Urls : Construct("SetWebhook::new", url, SetWebhookNew(url))

SetWebhookCertificate ==
    \E v \in Certificates :
        Set("SetWebhook", "certificate", v, SetWebhook_certificate(builder, v))

SetWebhookIpAddress ==
    \E v \in IpAddresses : Set("SetWebhook", "ip_address", v, SetWebhook_ip_address(builder, v))

SetWebhookMaxConnections ==
    \E v \in IntegerValues :
        Set("SetWebhook", "max_connections", v, SetWebhook_max_connections(builder, v))

SetWebhookAllowedUpdates ==
    \E v \in SUBSET AllowedUpdates :
        Set("SetWebhook", "allowed_updates", v, SetWebhook_allowed_updates(builder, v))

SetWebhookAddAllowedUpdate ==
    \E v \in AllowedUpdates :
        Set("SetWebhook", "add_allowed_update", v, SetWebhook_add_allowed_update(builder, v))

SetWebhookDropPendingUpdates ==
    \E v \in BOOLEAN :
        Set("SetWebhook", "drop_pending_updates", v,
            SetWebhook_drop_pending_updates(builder, v))

SetWebhookIntoRequest ==
    /\ builder.type = "SetWebhook"
    /\ \E order \in IterationOrders(UpdatesOf(builder)) :
        Convert("SetWebhook", SetWebhook_into_request(builder, order))

(* DeleteWebhook, GetWebhookInfo *)

DeleteWebhookNew == Construct("DeleteWebhook::default", <<>>, DeleteWebhookDefault)

DeleteWebhookDropPendingUpdates ==
    \E v \in BOOLEAN :
        Set("DeleteWebhook", "drop_pending_updates", v,
            DeleteWebhook_drop_pending_updates(builder, v))

DeleteWebhookIntoRequest == ConvertCopy("DeleteWebhook", DeleteWebhook_into_request(builder))

GetWebhookInfoNew == Construct("GetWebhookInfo", <<>>, GetWebhookInfoValue)

GetWebhookInfoIntoRequest ==
    ConvertCopy("GetWebhookInfo", GetWebhookInfo_into_request(builder))

Next ==
    \/ VoiceNew
    \/ VoiceCaption
    \/ VoiceCaptionEntities
    \/ VoiceParseMode
    \/ VoiceDuration
    \/ VoiceDisableNotification
    \/ VoiceReplyToMessageId
    \/ VoiceAllowSendingWithoutReply
    \/ VoiceReplyMarkup
    \/ VoiceIntoRequest
    \/ GetUpdatesNew
    \/ GetUpdatesOffset
    \/ GetUpdatesLimit
    \/ GetUpdatesTimeout
    \/ GetUpdatesAllowedUpdates
    \/ GetUpdatesAddAllowedUpdate
    \/ GetUpdatesIntoRequest
    \/ SetWebhookCreate
    \/ SetWebhookCertificate
    \/ SetWebhookIpAddress
    \/ SetWebhookMaxConnections
    \/ SetWebhookAllowedUpdates
    \/ SetWebhookAddAllowedUpdate
    \/ SetWebhookDropPendingUpdates
    \/ SetWebhookIntoRequest
    \/ DeleteWebhookNew
    \/ DeleteWebhookDropPendingUpdates
    \/ DeleteWebhookIntoRequest
    \/ GetWebhookInfoNew
    \/ GetWebhookInfoIntoRequest

Spec == Init /\ [][Next]_vars

----------------------------------------------------------------------------
(* BotCommand::new applied to the callers' strings *)

MaxNameChars == 34

MaxDescriptionChars == 258

MaxWide == 2

Strings(max) == {Str(a, w) : a \in 0..max, w \in 0..MaxWide}

CommandNew ==
    /\ last.op = "none"
    /\ \E name \in Strings(MaxNameChars), description \in Strings(MaxDescriptionChars) :
        LET result == BotCommandNew(name, description)
        IN  /\ command' = IF result.ok THEN Some(result.val) ELSE None
            /\ error' = IF result.ok THEN None ELSE Some(result.err)
            /\ last' = Call("BotCommand::new", <<name, description>>, result.ok)
    /\ UNCHANGED <<builder, request, called, consumed, json, parsed, replaced>>

SpecCommand == Init /\ [][CommandNew]_vars

----------------------------------------------------------------------------
(* Serialization to and deserialization from serde_json::Value *)

\* serde_json::to_value(&v) returned `doc`; the caller keeps `v`
ToValue(v, doc) ==
    /\ builder' = v
    /\ json' = Some(doc)
    /\ parsed' = None
    /\ error' = None
    /\ last' = Call("to_value", v, TRUE)
    /\ UNCHANGED <<request, called, consumed, command, replaced>>

\* serde_json::from_value::<T>(doc) of the document in hand returned `result`
FromValue(type, result) ==
    /\ is_some(json)
    /\ last.op \in {"to_value", "receive"}
    /\ parsed' = IF result.ok THEN Some(result.val) ELSE None
    /\ error' = IF result.ok THEN None ELSE Some(result.err)
    /\ last' = Call("from_value", type, result.ok)
    /\ UNCHANGED <<builder, json, request, called, consumed, command, replaced>>

ScopeToValue == \E scope \in Scopes : ToValue(scope, BotCommandScopeSerialize(scope))

ScopeFromValue ==
    /\ is_some(json)
    /\ FromValue("BotCommandScope", BotCommandScopeDeserialize(json.val))

\* a document of the remote API arrives, to be read as a `type`
Receive ==
    \E type \in ResponseModels : \E doc \in Documents(type, FALSE) :
        /\ last.op = "none"
        /\ json' = Some(doc)
        /\ builder' = NoBuilder
        /\ parsed' = None
        /\ error' = None
        /\ last' = Call("receive", type, TRUE)
        /\ UNCHANGED <<request, called, consumed, command, replaced>>

ResponseFromValue ==
    /\ last.op = "receive"
    /\ FromValue(last.arg, ResponseDeserialize(last.arg, json.val))

\* serde_json::to_value(&v) of a response model just read: the type does not
\* implement Serialize, the call is rejected and no document is made
ResponseToValue ==
    /\ last.op = "from_value" /\ last.ok
    /\ last.arg \in ResponseModels
    /\ "Serialize" \notin SerdeTraits(last.arg)
    /\ builder' = parsed.val
    /\ json' = None
    /\ error' = Some("the trait Serialize is not implemented")
    /\ last' = Call("to_value", parsed.val, FALSE)
    /\ UNCHANGED <<parsed, request, called, consumed, command, replaced>>

NextSerde ==
    \/ ScopeToValue
    \/ ScopeFromValue
    \/ Receive
    \/ ResponseFromValue
    \/ ResponseToValue

SpecSerde == Init /\ [][NextSerde]_vars

----------------------------------------------------------------------------
(* The builders serialized to JSON: a caller makes one, calls its setters   *)
(* and serializes it, or converts it when it is a Method.                   *)

InputMediaDocumentNew ==
    Construct("InputMediaDocument::default", <<>>, InputMediaDocumentDefault)

ForceReplyCreate ==
    \E force_reply \in BOOLEAN :
        Construct("ForceReply::new", force_reply, ForceReplyNew(force_reply))

ForceReplySet ==
    \/ \E v \in {"placeholder"} :
          Set("ForceReply", "input_field_placeholder", v,
              ForceReply_input_field_placeholder(builder, v))
    \/ \E v \in BOOLEAN : Set("ForceReply", "selective", v, ForceReply_selective(builder, v))

ContactCreate ==
    Construct("InputMessageContentContact::new", <<"+79001231212", "Vasya">>,
              InputMessageContentContactNew("+79001231212", "Vasya"))

LocationCreate ==
    Construct("InputMessageContentLocation::new", <<Float(15), Float(25)>>,
              InputMessageContentLocationNew(Float(15), Float(25)))

TextCreate ==
    \E message_text \in {"text", ""} :
        Construct("InputMessageContentText::new", message_text,
                  InputMessageContentTextNew(message_text))

VenueCreate ==
    Construct("InputMessageContentVenue::new", <<Float(15), Float(25), "title", "addr">>,
              InputMessageContentVenueNew(Float(15), Float(25), "title", "addr"))

\* one of the setters that store Some(value) in the field of their name
OptionSet ==
    /\ builder.type \in {"InputMediaDocument", "InputMessageContentContact",
                         "InputMessageContentLocation", "InputMessageContentText",
                         "InputMessageContentVenue"}
    /\ \E field \in DOMAIN Setters(builder.type) : \E v \in Setters(builder.type)[field] :
          Set(builder.type, field, v, SetOption(builder, field, v))

TextEntities ==
    \E v \in EntityLists :
        Set("InputMessageContentText", "entities", v,
            InputMessageContentText_entities(builder, v))

TextParseMode ==
    \E v \in ParseModes \cup {"Html"} :
        Set("InputMessageContentText", "parse_mode", v,
            InputMessageContentText_parse_mode(builder, v))

\* InputMessageContent::from(builder): the struct is moved into the enum
ContentFrom ==
    /\ builder.type \in {"InputMessageContentContact", "InputMessageContentLocation",
                         "InputMessageContentText", "InputMessageContentVenue"}
    /\ builder' = InputMessageContentFrom(builder)
    /\ last' = Call("InputMessageContent::from", builder, TRUE)
    /\ consumed' = FALSE
    /\ replaced' = FALSE
    /\ UNCHANGED <<request, error, called, command, json, parsed>>

\* serde_json::to_string(&builder): the caller keeps the builder
Serialize ==
    /\ builder.type \in {"InputMediaDocument", "ForceReply", "InputMessageContentContact",
                         "InputMessageContentLocation", "InputMessageContentText",
                         "InputMessageContentVenue", "InputMessageContent"}
    /\ json' = Some(to_string(builder))
    /\ last' = Call("to_string", builder, TRUE)
    /\ replaced' = FALSE
    /\ UNCHANGED <<builder, request, error, called, consumed, command, parsed>>

NextJson ==
    \/ GetUpdatesNew
    \/ GetUpdatesOffset
    \/ GetUpdatesLimit
    \/ GetUpdatesTimeout
    \/ GetUpdatesAllowedUpdates
    \/ GetUpdatesAddAllowedUpdate
    \/ GetUpdatesIntoRequest
    \/ SetWebhookCreate
    \/ SetWebhookCertificate
    \/ SetWebhookIpAddress
    \/ SetWebhookMaxConnections
    \/ SetWebhookAllowedUpdates
    \/ SetWebhookAddAllowedUpdate
    \/ SetWebhookDropPendingUpdates
    \/ SetWebhookIntoRequest
    \/ InputMediaDocumentNew
    \/ ForceReplyCreate
    \/ ForceReplySet
    \/ ContactCreate
    \/ LocationCreate
    \/ TextCreate
    \/ VenueCreate
    \/ OptionSet
    \/ TextEntities
    \/ TextParseMode
    \/ ContentFrom
    \/ Serialize

SpecJson == Init /\ [][NextJson]_vars

----------------------------------------------------------------------------
(* Properties of BotCommand::new, checked under SpecCommand *)

InRange(n, min, max) == min <= n /\ n <= max

NameChars == CharCount(last.arg[1])

DescriptionChars == CharCount(last.arg[2])

ValidNameChars == InRange(NameChars, MIN_NAME_LEN, MAX_NAME_LEN)

ValidDescriptionChars ==
    InRange(DescriptionChars, MIN_DESCRIPTION_LEN, MAX_DESCRIPTION_LEN)

Succeeded == is_some(command) /\ is_none(error)

FailedWith(err, text) ==
    /\ is_none(command)
    /\ error = Some(err)
    /\ BotCommandErrorText(err) = text

\* C4: at the length boundaries, a name of 1 or 32 characters (description
\* valid) succeeds and one of 0 or 33 characters fails with BadNameLen of that
\* length; a description of 3 or 256 characters (name valid) succeeds and one
\* of 2 or 257 characters fails with BadDescriptionLen of that length; the
\* message reports the bounds and the offending length.
C4_LengthBoundaries ==
    last.op = "BotCommand::new" =>
        /\ NameChars \in {MIN_NAME_LEN, MAX_NAME_LEN} /\ ValidDescriptionChars => Succeeded
        /\ NameChars \in {MIN_NAME_LEN - 1, MAX_NAME_LEN + 1} =>
              FailedWith(BadNameLen(NameChars),
                         "command name can have a length of 1 up to 32 characters, got "
                            \o ToString(NameChars))
        /\ DescriptionChars \in {MIN_DESCRIPTION_LEN, MAX_DESCRIPTION_LEN} /\ ValidNameChars
              => Succeeded
        /\ DescriptionChars \in {MIN_DESCRIPTION_LEN - 1, MAX_DESCRIPTION_LEN + 1}
              /\ ValidNameChars =>
              FailedWith(BadDescriptionLen(DescriptionChars),
                         "command description can have a length of 3 up to 256 characters, got "
                            \o ToString(DescriptionChars))

\* C5: for every name and description, multi-byte characters included,
\* BotCommand::new succeeds if and only if the name has 1 to 32 characters and
\* the description has 3 to 256 characters.
C5_LengthsInCharacters ==
    last.op = "BotCommand::new" => (Succeeded <=> ValidNameChars /\ ValidDescriptionChars)

\* C6: BotCommand::new returns either an error and no BotCommand, or a
\* BotCommand whose name() and description() are the strings passed in, and
\* every BotCommand it returns satisfies both length bounds.
C6_NoPartialObject ==
    last.op = "BotCommand::new" =>
        \/ is_some(error) /\ is_none(command)
        \/ /\ Succeeded
           /\ BotCommand_name(command.val) = last.arg[1]
           /\ BotCommand_description(command.val) = last.arg[2]
           /\ InRange(CharCount(BotCommand_name(command.val)), MIN_NAME_LEN, MAX_NAME_LEN)
           /\ InRange(CharCount(BotCommand_description(command.val)),
                      MIN_DESCRIPTION_LEN, MAX_DESCRIPTION_LEN)

\* What the constructor does enforce: the three properties above with the
\* lengths taken in bytes, as String::len counts them.
BytesOnly == last.arg[1].wide = 0 /\ last.arg[2].wide = 0

BoundariesOfSingleByteStrings ==
    last.op = "BotCommand::new" /\ BytesOnly => C4_LengthBoundaries

LengthsInBytes ==
    last.op = "BotCommand::new" =>
        (Succeeded <=> /\ InRange(StrLen(last.arg[1]), MIN_NAME_LEN, MAX_NAME_LEN)
                       /\ InRange(StrLen(last.arg[2]), MIN_DESCRIPTION_LEN, MAX_DESCRIPTION_LEN))

ErrorOrWholeObject ==
    last.op = "BotCommand::new" =>
        \/ is_some(error) /\ is_none(command)
        \/ /\ Succeeded
           /\ BotCommand_name(command.val) = last.arg[1]
           /\ BotCommand_description(command.val) = last.arg[2]
           /\ InRange(StrLen(BotCommand_name(command.val)), MIN_NAME_LEN, MAX_NAME_LEN)
           /\ InRange(StrLen(BotCommand_description(command.val)),
                      MIN_DESCRIPTION_LEN, MAX_DESCRIPTION_LEN)

\* C24: BotCommand::new checks the name before the description: when the
\* lengths of both are out of bounds (counted in bytes, as the constructor
\* counts them, or in characters) the error is BadNameLen, carrying the length
\* of the name as the constructor measured it; BadDescriptionLen is returned
\* only when the length of the name is within bounds, and carries the length
\* of the description.
C24_NameCheckedFirst ==
    last.op = "BotCommand::new" =>
        LET name == last.arg[1]
            description == last.arg[2]
        IN  /\ /\ ~InRange(StrLen(name), MIN_NAME_LEN, MAX_NAME_LEN)
               /\ ~InRange(StrLen(description), MIN_DESCRIPTION_LEN, MAX_DESCRIPTION_LEN)
               => is_none(command) /\ error = Some(BadNameLen(StrLen(name)))
            /\ ~ValidNameChars /\ ~ValidDescriptionChars =>
                  /\ is_none(command) /\ is_some(error)
                  /\ error.val.variant = "BadNameLen"
            /\ is_some(error) /\ error.val.variant = "BadDescriptionLen" =>
                  /\ InRange(StrLen(name), MIN_NAME_LEN, MAX_NAME_LEN)
                  /\ ValidNameChars
                  /\ error.val.len = StrLen(description)
                  /\ is_none(command)

\* an empty name with a description that is too long: the name is reported
C24_Witness ==
    /\ last.op = "BotCommand::new"
    /\ StrLen(last.arg[1]) = 0
    /\ StrLen(last.arg[2]) > MAX_DESCRIPTION_LEN
    /\ error = Some(BadNameLen(0))

----------------------------------------------------------------------------
(* Properties of the Method builders, checked under Spec *)

\* the state right after into_request of a value of `type`
Converted(type) ==
    /\ last.op = "into_request"
    /\ last.arg.type = type
    /\ is_some(request)

WasCalled(name) == name \in DOMAIN called

HasField(form, name) == contains_key(form, name)

ExactlyOneOf(form) == HasField(form, "parse_mode") # HasField(form, "caption_entities")

\* C1: a SendVoice form never holds both parse_mode and caption_entities;
\* after a successful caption_entities call it holds caption_entities and no
\* parse_mode, after a parse_mode call parse_mode and no caption_entities.
C1_ParseModeExcludesEntities ==
    /\ builder.type = "SendVoice" =>
        /\ ~(HasField(builder.form, "parse_mode") /\ HasField(builder.form, "caption_entities"))
        /\ last.op = "caption_entities" /\ last.ok =>
              /\ HasField(builder.form, "caption_entities")
              /\ ~HasField(builder.form, "parse_mode")
        /\ last.op = "parse_mode" =>
              /\ HasField(builder.form, "parse_mode")
              /\ ~HasField(builder.form, "caption_entities")
    /\ Converted("SendVoice") =>
          ~(HasField(request.val.body.form, "parse_mode")
            /\ HasField(request.val.body.form, "caption_entities"))

\* a successful caption_entities call on a builder that held a parse mode
C1_Witness ==
    /\ builder.type = "SendVoice"
    /\ last.op = "caption_entities" /\ last.ok
    /\ WasCalled("parse_mode")
    /\ HasField(builder.form, "caption_entities")

\* C2: on every SendVoice builder, parse_mode(m) called twice gives the form
\* parse_mode(m) called once gives, and so does a successful
\* caption_entities(e); exactly one of the two fields is present afterwards.
C2_ExclusivityIdempotent ==
    builder.type = "SendVoice" =>
        /\ \A m \in ParseModes :
              LET once == SendVoice_parse_mode(builder, m)
                  twice == SendVoice_parse_mode(once, m)
              IN  twice.form = once.form /\ ExactlyOneOf(twice.form)
        /\ \A e \in EntityLists : \A serialized \in serialize_text_entities(e) :
              serialized.ok =>
                  LET once == SendVoice_caption_entities(builder, serialized)
                      twice == SendVoice_caption_entities(once.val, serialized)
                  IN  /\ once.ok /\ twice.ok
                      /\ twice.val.form = once.val.form
                      /\ ExactlyOneOf(twice.val.form)

\* a builder on which parse_mode has just replaced an entity list
C2_Witness ==
    /\ builder.type = "SendVoice"
    /\ last.op = "parse_mode"
    /\ WasCalled("caption_entities")
    /\ HasField(builder.form, "parse_mode")

BaseUrls == {"base-url", "https://api.telegram.org"}

Tokens == {"token", "42:secret"}

\* C3: SendVoice::new followed directly by into_request gives a POST of
\* sendVoice, URL <base>/bot<token>/sendVoice, whose form holds exactly the
\* text field chat_id and the file field voice.
C3_MinimalSendVoice ==
    Converted("SendVoice") /\ called = NoCalls =>
        LET req == request.val
            body == into_body(req)
        IN  /\ get_method(req) = "Post"
            /\ req.method = "sendVoice"
            /\ \A base \in BaseUrls, token \in Tokens :
                  build_url(req, base, token) = base \o "/bot" \o token \o "/sendVoice"
            /\ body.kind = "Form"
            /\ DOMAIN body.form.fields = {"chat_id", "voice"}
            /\ is_some(get_text(body.form.fields["chat_id"]))
            /\ is_some(get_file(body.form.fields["voice"]))

C3_Witness == Converted("SendVoice") /\ called = NoCalls

DropPendingUpdatesJson(b) == "{\"drop_pending_updates\":" \o BoolText(b) \o "}"

\* C7: DeleteWebhook::default() converts to a GET of deleteWebhook with an
\* empty body; with drop_pending_updates(false) it converts to a POST of
\* deleteWebhook with the JSON body {"drop_pending_updates":false}.
C7_DeleteWebhookRequests ==
    Converted("DeleteWebhook") =>
        /\ called = NoCalls =>
              /\ get_method(request.val) = "Get"
              /\ into_body(request.val) = [kind |-> "Empty"]
              /\ request.val.method = "deleteWebhook"
        /\ WasCalled("drop_pending_updates") /\ called["drop_pending_updates"] = FALSE =>
              /\ get_method(request.val) = "Post"
              /\ into_body(request.val) =
                    [kind |-> "Json", data |-> "{\"drop_pending_updates\":false}"]
              /\ request.val.method = "deleteWebhook"

C7_Witness ==
    /\ Converted("DeleteWebhook")
    /\ WasCalled("drop_pending_updates") /\ called["drop_pending_updates"] = FALSE
    /\ get_method(request.val) = "Post"

\* C8: a DeleteWebhook on which drop_pending_updates was called converts to a
\* POST with the JSON body {"drop_pending_updates":b}, b the last value passed,
\* true or false; one on which it was never called converts to a GET with an
\* empty body.
C8_VerbFollowsPresence ==
    Converted("DeleteWebhook") =>
        IF WasCalled("drop_pending_updates")
        THEN /\ get_method(request.val) = "Post"
             /\ into_body(request.val) =
                   [kind |-> "Json",
                    data |-> DropPendingUpdatesJson(called["drop_pending_updates"])]
        ELSE /\ get_method(request.val) = "Get"
             /\ into_body(request.val) = [kind |-> "Empty"]

C8_Witness ==
    /\ Converted("DeleteWebhook")
    /\ WasCalled("drop_pending_updates") /\ called["drop_pending_updates"] = TRUE
    /\ into_body(request.val).kind = "Json"

\* the fixed name of each method
MethodName(type) ==
    CASE type = "SendVoice" -> "sendVoice"
      [] type = "GetUpdates" -> "getUpdates"
      [] type = "SetWebhook" -> "setWebhook"
      [] type = "DeleteWebhook" -> "deleteWebhook"
      [] type = "GetWebhookInfo" -> "getWebhookInfo"

MethodTypes == {"SendVoice", "GetUpdates", "SetWebhook", "DeleteWebhook", "GetWebhookInfo"}

\* C9: for every Request a method converts to, and every base URL and token,
\* build_url is <base>/bot<token>/<method>, <method> the fixed name of the
\* method, whatever optional parameters were set.
C9_UrlOfMethod ==
    last.op = "into_request" =>
        /\ last.arg.type \in MethodTypes
        /\ is_some(request)
        /\ \A base \in BaseUrls, token \in Tokens :
              build_url(request.val, base, token)
                  = base \o "/bot" \o token \o "/" \o MethodName(last.arg.type)

\* a DeleteWebhook converted with its optional parameter set
C9_Witness ==
    /\ Converted("DeleteWebhook")
    /\ called # NoCalls
    /\ build_url(request.val, "base-url", "token") = "base-url/bottoken/deleteWebhook"

\* C10: the verb of a Request is GET exactly when its body is empty and POST
\* otherwise; GetWebhookInfo gives GET with an empty body; GetUpdates,
\* SetWebhook and SendVoice give POST whatever parameters are set, GetUpdates
\* without parameters a POST with the JSON body {}.
C10_VerbFollowsBody ==
    last.op = "into_request" =>
        LET req == request.val
            type == last.arg.type
        IN  /\ get_method(req) \in {"Get", "Post"}
            /\ get_method(req) = "Get" <=> into_body(req).kind = "Empty"
            /\ type = "GetWebhookInfo" => get_method(req) = "Get"
            /\ type \in {"GetUpdates", "SetWebhook", "SendVoice"} => get_method(req) = "Post"
            /\ type = "GetUpdates" /\ called = NoCalls =>
                  into_body(req) = [kind |-> "Json", data |-> "{}"]

C10_Witness ==
    /\ Converted("GetUpdates")
    /\ called = NoCalls
    /\ get_method(request.val) = "Post"

\* the body representations of RequestBody, each with the fields it carries
BodyFields(kind) ==
    CASE kind = "Empty" -> {"kind"}
      [] kind = "Json" -> {"kind", "data"}
      [] kind = "Form" -> {"kind", "form"}

\* C11: every Request has exactly one body representation (none, a JSON
\* string or a form), fixed per method whatever setters were called: a form
\* for SendVoice, JSON for GetUpdates and SetWebhook, none for GetWebhookInfo,
\* none or JSON and never a form for DeleteWebhook.
C11_BodyKindPerMethod ==
    last.op = "into_request" =>
        LET body == into_body(request.val)
            type == last.arg.type
        IN  /\ body.kind \in {"Empty", "Json", "Form"}
            /\ DOMAIN body = BodyFields(body.kind)
            /\ type = "SendVoice" => body.kind = "Form"
            /\ type \in {"GetUpdates", "SetWebhook"} => body.kind = "Json"
            /\ type = "GetWebhookInfo" => body.kind = "Empty"
            /\ type = "DeleteWebhook" => body.kind \in {"Empty", "Json"}

\* a SetWebhook converted after some of its setters were called
C11_Witness ==
    /\ Converted("SetWebhook")
    /\ WasCalled("certificate") /\ WasCalled("allowed_updates")
    /\ into_body(request.val).kind = "Json"

\* C15: when the serialization of its argument fails, caption_entities
\* returns a TextEntityError and reply_markup a ReplyMarkupError, and no
\* builder; the form is then as it was when the setter was called, no field
\* inserted and none removed (a failing caption_entities leaves parse_mode);
\* into_request never fails.
C15_FailingSetters ==
    /\ builder.type = "SendVoice" =>
          /\ \A e \in EntityLists : \A serialized \in serialize_text_entities(e) :
                ~serialized.ok =>
                    LET result == SendVoice_caption_entities(builder, serialized)
                    IN  /\ ~result.ok
                        /\ result.err = "TextEntityError::Serialize"
                        /\ result.self.form = builder.form
                        /\ HasField(builder.form, "parse_mode")
                              => HasField(result.self.form, "parse_mode")
          /\ \A m \in Markups : \A serialized \in ReplyMarkupSerialize(m) :
                ~serialized.ok =>
                    LET result == SendVoice_reply_markup(builder, serialized)
                    IN  /\ ~result.ok
                        /\ result.err = "ReplyMarkupError::Serialize"
                        /\ result.self.form = builder.form
    /\ last.op = "caption_entities" /\ ~last.ok =>
          builder = NoBuilder /\ error = Some("TextEntityError::Serialize")
    /\ last.op = "reply_markup" /\ ~last.ok =>
          builder = NoBuilder /\ error = Some("ReplyMarkupError::Serialize")
    /\ last.op = "into_request" => last.ok /\ is_some(request)

\* a caption_entities call that failed: the caller holds the error, no builder
C15_Witness ==
    /\ last.op = "caption_entities" /\ ~last.ok
    /\ builder = NoBuilder
    /\ error = Some("TextEntityError::Serialize")

\* the text a SendVoice setter stores for the argument `v`
FieldText(name, v) ==
    CASE name = "caption" -> v
      [] name = "caption_entities" -> JsonArray([i \in 1..Len(v) |-> TextEntityJson(v[i])])
      [] name = "parse_mode" -> ParseModeText(v)
      [] name \in {"duration", "reply_to_message_id"} -> IntegerText(v)
      [] name \in {"disable_notification", "allow_sending_without_reply"} -> BoolText(v)
      [] name = "reply_markup" -> ForceReplyJson(v)

\* the form holds one field `name`, a text field holding `text`
HoldsOnce(form, name, text) ==
    /\ contains_key(form, name)
    /\ get_text(form.fields[name]) = Some(text)

\* the infallible setters of SendVoice applied to `self`
Applied(name, self, v) ==
    CASE name = "caption" -> SendVoice_caption(self, v)
      [] name = "parse_mode" -> SendVoice_parse_mode(self, v)
      [] name = "duration" -> SendVoice_duration(self, v)
      [] name = "disable_notification" -> SendVoice_disable_notification(self, v)
      [] name = "reply_to_message_id" -> SendVoice_reply_to_message_id(self, v)
      [] name = "allow_sending_without_reply" -> SendVoice_allow_sending_without_reply(self, v)

\* the arguments the callers pass to the infallible setters
ValuesOf(name) ==
    CASE name = "caption" -> Captions
      [] name = "parse_mode" -> ParseModes
      [] name \in {"duration", "reply_to_message_id"} -> IntegerValues
      [] name \in {"disable_notification", "allow_sending_without_reply"} -> BOOLEAN

\* C17: for every SendVoice setter, the form after a successful call holds one
\* field of the setter's name with the value just passed, and calling the
\* setter with v1 then v2 gives the form that calling it once with v2 gives.
C17_LastInsertWins ==
    builder.type = "SendVoice" =>
        /\ last.op \in DOMAIN called /\ last.ok =>
              HoldsOnce(builder.form, last.op, FieldText(last.op, last.arg))
        /\ \A name \in {"caption", "parse_mode", "duration", "disable_notification",
                         "reply_to_message_id", "allow_sending_without_reply"} :
              \A v1, v2 \in ValuesOf(name) :
                  LET once == Applied(name, builder, v2)
                      twice == Applied(name, Applied(name, builder, v1), v2)
                  IN  /\ twice.form = once.form
                      /\ HoldsOnce(twice.form, name, FieldText(name, v2))
        /\ \A v1, v2 \in EntityLists :
              \A s1 \in serialize_text_entities(v1), s2 \in serialize_text_entities(v2) :
                  s1.ok /\ s2.ok =>
                      LET once == SendVoice_caption_entities(builder, s2)
                          first == SendVoice_caption_entities(builder, s1)
                          twice == SendVoice_caption_entities(first.val, s2)
                      IN  /\ once.ok /\ twice.ok
                          /\ twice.val.form = once.val.form
                          /\ HoldsOnce(twice.val.form, "caption_entities",
                                       FieldText("caption_entities", v2))
        /\ \A v1, v2 \in Markups :
              \A s1 \in ReplyMarkupSerialize(v1), s2 \in ReplyMarkupSerialize(v2) :
                  s1.ok /\ s2.ok =>
                      LET once == SendVoice_reply_markup(builder, s2)
                          first == SendVoice_reply_markup(builder, s1)
                          twice == SendVoice_reply_markup(first.val, s2)
                      IN  /\ once.ok /\ twice.ok
                          /\ twice.val.form = once.val.form
                          /\ HoldsOnce(twice.val.form, "reply_markup",
                                       FieldText("reply_markup", v2))

\* caption was called with one value and then with another
C17_Witness ==
    /\ builder.type = "SendVoice"
    /\ last.op = "caption" /\ replaced
    /\ HoldsOnce(builder.form, "caption", last.arg)

\* the text documented for the argument `v` of the setter `name`
DocumentedText(name, v) ==
    CASE name = "caption" -> v
      [] name = "parse_mode" ->
            (CASE v = "Markdown" -> "Markdown" [] v = "MarkdownV2" -> "MarkdownV2")
      [] name \in {"duration", "reply_to_message_id"} ->
            (CASE v = I64(0) -> "0" [] v = I64(1) -> "1" [] v = I64(2) -> "2"
               [] v = I64(3) -> "3")
      [] name \in {"disable_notification", "allow_sending_without_reply"} ->
            (IF v THEN "true" ELSE "false")
      [] name = "reply_markup" ->
            (CASE v = ForceReplyNew(TRUE) -> "{\"force_reply\":true}"
               [] v = ForceReply_selective(ForceReplyNew(FALSE), FALSE) ->
                     "{\"force_reply\":false,\"selective\":false}")

TextSetters ==
    {"caption", "parse_mode", "duration", "disable_notification", "reply_to_message_id",
     "allow_sending_without_reply", "reply_markup"}

\* C22: each SendVoice setter stores its argument under its documented field
\* name as text: caption as given, parse_mode as the mode's name, duration and
\* reply_to_message_id as decimal integers, disable_notification and
\* allow_sending_without_reply as true / false, reply_markup as the markup's
\* JSON; a builder with all of these set converts to a form holding exactly
\* those fields plus chat_id and voice.
C22_FieldsAsText ==
    /\ builder.type = "SendVoice" /\ last.op \in TextSetters /\ last.ok =>
          /\ contains_key(builder.form, last.op)
          /\ builder.form.fields[last.op] = TextValue(DocumentedText(last.op, last.arg))
    /\ builder.type = "SendVoice" =>
          \A name \in TextSetters \ {"parse_mode"} :
              WasCalled(name) =>
                  /\ contains_key(builder.form, name)
                  /\ get_text(builder.form.fields[name])
                        = Some(DocumentedText(name, called[name]))
    /\ Converted("SendVoice") /\ DOMAIN called = TextSetters =>
          LET form == into_body(request.val).form
          IN  /\ DOMAIN form.fields = TextSetters \cup {"chat_id", "voice"}
              /\ \A name \in TextSetters :
                    get_text(form.fields[name]) = Some(DocumentedText(name, called[name]))
              /\ is_some(get_text(form.fields["chat_id"]))
              /\ is_some(get_file(form.fields["voice"]))
    /\ LET request0 ==
              SendVoice_into_request(
                  SendVoice_reply_markup(
                      SendVoice_allow_sending_without_reply(
                          SendVoice_reply_to_message_id(
                              SendVoice_disable_notification(
                                  SendVoice_duration(
                                      SendVoice_parse_mode(
                                          SendVoice_caption(
                                              SendVoiceNew(ChatIdInteger(I64(1)),
                                                           InputFileId("file-id")),
                                              "caption"),
                                          "Markdown"),
                                      I64(1)),
                                  TRUE),
                              I64(1)),
                          TRUE),
                      Ok(ForceReplyJson(ForceReplyNew(TRUE)))).val)
            fields == into_body(request0).form.fields
        IN  /\ DOMAIN fields = TextSetters \cup {"chat_id", "voice"}
            /\ get_text(fields["chat_id"]) = Some("1")
            /\ get_text(fields["caption"]) = Some("caption")
            /\ get_text(fields["parse_mode"]) = Some("Markdown")
            /\ get_text(fields["duration"]) = Some("1")
            /\ get_text(fields["disable_notification"]) = Some("true")
            /\ get_text(fields["reply_to_message_id"]) = Some("1")
            /\ get_text(fields["allow_sending_without_reply"]) = Some("true")
            /\ get_text(fields["reply_markup"]) = Some("{\"force_reply\":true}")

\* a SendVoice on which each of the seven setters was called, converted
C22_Witness ==
    /\ Converted("SendVoice")
    /\ DOMAIN called = TextSetters
    /\ called["reply_markup"] = ForceReplyNew(TRUE)
    /\ called["allow_sending_without_reply"] = FALSE
    /\ DOMAIN into_body(request.val).form.fields = TextSetters \cup {"chat_id", "voice"}

\* the fields a SendVoice setter may change
Frame(op) ==
    IF op \in {"parse_mode", "caption_entities"} THEN {"parse_mode", "caption_entities"}
    ELSE {op}

\* the names of the fields that are not the same in the two forms
Changed(before, after) ==
    {n \in (DOMAIN before.fields) \cup (DOMAIN after.fields) :
        \/ n \notin DOMAIN before.fields
        \/ n \notin DOMAIN after.fields
        \/ before.fields[n] # after.fields[n]}

\* C25: SendVoice::new gives a form holding chat_id and voice with the values
\* passed; every setter call that returns a builder leaves chat_id and voice
\* as they were; caption, duration, disable_notification,
\* reply_to_message_id, allow_sending_without_reply and reply_markup change
\* no field but the one of their own name; parse_mode and caption_entities
\* change no field but parse_mode and caption_entities.
C25_BoundedEffect ==
    [][builder'.type = "SendVoice" =>
          /\ last'.op = "SendVoice::new" =>
                /\ DOMAIN builder'.form.fields = {"chat_id", "voice"}
                /\ builder'.form.fields["chat_id"] = ChatIdValue(last'.arg[1])
                /\ builder'.form.fields["voice"] = FileValue(last'.arg[2])
          /\ builder.type = "SendVoice" =>
                /\ last'.op \in TextSetters \cup {"caption_entities"}
                /\ Changed(builder.form, builder'.form) \subseteq Frame(last'.op)
                /\ {"chat_id", "voice"} \subseteq DOMAIN builder'.form.fields
                /\ builder'.form.fields["chat_id"] = builder.form.fields["chat_id"]
                /\ builder'.form.fields["voice"] = builder.form.fields["voice"]]_vars

\* duration called on a builder that holds a caption and a markup: both are
\* still in the form
C25_Witness ==
    /\ builder.type = "SendVoice"
    /\ last.op = "duration"
    /\ WasCalled("caption") /\ WasCalled("reply_markup")
    /\ {"chat_id", "voice", "caption", "reply_markup", "duration"}
          \subseteq DOMAIN builder.form.fields

Constructors ==
    {"SendVoice::new", "GetUpdates::default", "SetWebhook::new", "DeleteWebhook::default",
     "GetWebhookInfo"}

\* C16: a Method value is consumed by its conversion to a Request: once
\* into_request has been called on a value, no setter modifies that value and
\* it is not converted again; the next call the caller can make is the
\* construction of a new value.
C16_ConsumedOnce ==
    [][last.op = "into_request" => last'.op \in Constructors]_vars

\* C16 as amended: into_request consumes a value of SendVoice, GetUpdates or
\* SetWebhook, which the caller no longer holds; DeleteWebhook and
\* GetWebhookInfo are Copy, into_request consumes a copy and the caller still
\* holds the value it converted.
C16_ConsumedUnlessCopy ==
    last.op = "into_request" =>
        IF last.arg.type \in {"SendVoice", "GetUpdates", "SetWebhook"}
        THEN builder = NoBuilder /\ ~consumed
        ELSE /\ last.arg.type \in {"DeleteWebhook", "GetWebhookInfo"}
             /\ builder = last.arg /\ consumed

\* a GetUpdates on which setters were called, converted and gone
C16_Witness ==
    /\ Converted("GetUpdates")
    /\ WasCalled("offset")
    /\ builder = NoBuilder

----------------------------------------------------------------------------
(* Properties of the serde conversions, checked under SpecSerde *)

\* the value of `key` in a JSON object, Null when the key is absent
Member(doc, key) ==
    IF doc.j = "Object" /\ key \in DOMAIN doc.Object THEN doc.Object[key] ELSE JsonNull

\* C12: every BotCommandScope value serializes to a JSON object whose `type`
\* is the snake_case name of its variant, and deserializing that object gives
\* a value equal to the original.
C12_ScopeRoundTrip ==
    builder.type = "BotCommandScope" =>
        /\ last.op = "to_value" =>
              /\ is_some(json) /\ json.val.j = "Object"
              /\ Member(json.val, "type") = JsonValue("String",
                    CASE builder.variant = "Default" -> "default"
                      [] builder.variant = "AllPrivateChats" -> "all_private_chats"
                      [] builder.variant = "AllGroupChats" -> "all_group_chats"
                      [] builder.variant = "AllChatAdministrators" -> "all_chat_administrators"
                      [] builder.variant = "Chat" -> "chat"
                      [] builder.variant = "ChatAdministrators" -> "chat_administrators"
                      [] builder.variant = "ChatMember" -> "chat_member")
        /\ last.op = "from_value" /\ last.arg = "BotCommandScope" =>
              last.ok /\ parsed = Some(builder)

\* a ChatMember scope of a username, serialized and read back
C12_Witness ==
    /\ builder = BotCommandScope_chat_member(ChatIdUsername("@channel"), I64(1))
    /\ last.op = "from_value" /\ last.arg = "BotCommandScope"
    /\ is_some(parsed)
    /\ Member(json.val, "type") = JsonValue("String", "chat_member")

\* a value of a response model with none of its optional parts missing
FullyPopulated(v) ==
    CASE v.type = "Game" ->
            /\ Len(v.photo) > 0 /\ is_some(v.animation)
            /\ is_some(v.text) /\ is_some(v.text.val.entities)
      [] v.type = "GameHighScore" -> TRUE
      [] v.type = "InlineQuery" -> is_some(v.chat_type) /\ is_some(v.location)
      [] v.type = "ChosenInlineResult" -> is_some(v.location) /\ is_some(v.inline_message_id)

\* C13 as stated: a fully-populated response model value (Game, GameHighScore,
\* InlineQuery, ChosenInlineResult) is serialized to JSON, and deserializing
\* that JSON gives a value equal to the original in every field.
C13_ResponseRoundTrip ==
    last.op = "to_value" /\ builder.type \in ResponseModels /\ FullyPopulated(builder) =>
        /\ last.ok
        /\ is_some(json)
        /\ ResponseDeserialize(builder.type, json.val) = Ok(builder)

\* the members of an array of objects
Objects(array) == [i \in 1..Len(array.Array) |-> array.Array[i].Object]

\* C13 as amended: deserializing a fully-populated JSON document of a response
\* model gives a value that holds every member of the document, field by
\* field; the models implement Deserialize only, and serializing a value of
\* them is rejected.
C13_FullDocumentRead ==
    /\ last.op = "from_value" /\ last.arg \in ResponseModels
         /\ json.val \in Documents(last.arg, TRUE) =>
          LET doc == json.val
              v == parsed.val
          IN  /\ last.ok /\ is_some(parsed)
              /\ v.type = last.arg
              /\ FullyPopulated(v)
              /\ v.type = "Game" =>
                    /\ v.title = Member(doc, "title").String
                    /\ v.description = Member(doc, "description").String
                    /\ v.photo = Objects(Member(doc, "photo"))
                    /\ v.text.val.data = Member(doc, "text").String
                    /\ v.text.val.entities.val = Objects(Member(doc, "text_entities"))
                    /\ v.animation.val = Member(doc, "animation").Object
              /\ v.type = "GameHighScore" =>
                    /\ v.position = Member(doc, "position").Number
                    /\ v.user = Member(doc, "user").Object
                    /\ v.score = Member(doc, "score").Number
              /\ v.type = "InlineQuery" =>
                    /\ v.id = Member(doc, "id").String
                    /\ v["from"] = Member(doc, "from").Object
                    /\ v.query = Member(doc, "query").String
                    /\ v.offset = Member(doc, "offset").String
                    /\ InlineQueryChatTypeName(v.chat_type.val) = Member(doc, "chat_type").String
                    /\ v.location.val = Member(doc, "location").Object
              /\ v.type = "ChosenInlineResult" =>
                    /\ v.result_id = Member(doc, "result_id").String
                    /\ v["from"] = Member(doc, "from").Object
                    /\ v.location.val = Member(doc, "location").Object
                    /\ v.inline_message_id.val = Member(doc, "inline_message_id").String
                    /\ v.query = Member(doc, "query").String
    /\ last.op = "to_value" /\ builder.type \in ResponseModels => ~last.ok /\ is_none(json)

\* a fully-populated Game document read into a Game
C13_Witness ==
    /\ last.op = "from_value" /\ last.arg = "Game" /\ last.ok
    /\ json.val \in GameDocuments(TRUE)
    /\ is_some(parsed.val.animation)

\* C14: Game is deserialized in two stages.  When the raw shape cannot be read
\* the deserialization fails.  Otherwise, with `text` present, the text and
\* the text_entities are combined into Game.text, and if an entity does not
\* lie within the text the deserialization fails with a custom error and no
\* Game; with `text` absent Game.text is None.  title, description, photo and
\* animation are those of the raw shape.
C14_GameTwoStage ==
    last.op = "from_value" /\ last.arg = "Game" =>
        LET doc == json.val
            raw == StructDeserialize("RawGame", RawGameSchema, doc)
            text == Member(doc, "text")
            entities == Member(doc, "text_entities")
            outside(e) ==
                e.Object["offset"].Number.lo + e.Object["length"].Number.lo > Len(text.String)
            invalid == entities.j = "Array" /\ \E i \in 1..Len(entities.Array) :
                                                  outside(entities.Array[i])
        IN  /\ ~raw.ok => ~last.ok /\ is_none(parsed) /\ error = Some(raw.err)
            /\ raw.ok /\ text.j = "String" /\ invalid =>
                  /\ ~last.ok /\ is_none(parsed)
                  /\ error = Some("custom: TextEntityError")
            /\ raw.ok /\ text.j = "String" /\ ~invalid =>
                  /\ last.ok
                  /\ parsed.val.text =
                        Some([data |-> text.String, entities |-> raw.val.text_entities])
            /\ raw.ok /\ text.j # "String" => last.ok /\ parsed.val.text = None
            /\ last.ok =>
                  /\ parsed.val.title = raw.val.title
                  /\ parsed.val.description = raw.val.description
                  /\ parsed.val.photo = raw.val.photo
                  /\ parsed.val.animation = raw.val.animation

\* a Game document whose entities do not lie within its text
C14_Witness ==
    /\ last.op = "from_value" /\ last.arg = "Game" /\ ~last.ok
    /\ Member(json.val, "text") = JsonText("text")
    /\ error = Some("custom: TextEntityError")

\* the keys a document of a response model must carry
RequiredOf(type) ==
    CASE type = "Game" -> {"title", "description", "photo"}
      [] type = "GameHighScore" -> {"position", "user", "score"}
      [] type = "InlineQuery" -> {"id", "from", "query", "offset"}
      [] type = "ChosenInlineResult" -> {"result_id", "from", "query"}

\* the fields of a response model that may be None
OptionalOf(type) ==
    CASE type = "Game" -> {"text", "animation"}
      [] type = "GameHighScore" -> {}
      [] type = "InlineQuery" -> {"chat_type", "location"}
      [] type = "ChosenInlineResult" -> {"location", "inline_message_id"}

\* the documents that carry the required keys only, each well-formed
MinimalDocuments(type) ==
    CASE type = "Game" ->
            {Document([title |-> Some(JsonText("title")),
                       description |-> Some(JsonText("description")),
                       photo |-> Some(JsonValue("Array", photo))]) :
                photo \in {<<>>, <<PhotoDocument>>}}
      [] type = "GameHighScore" ->
            {Document([position |-> Some(JsonInteger(1)), user |-> Some(UserDocument),
                       score |-> Some(JsonInteger(3))])}
      [] type = "InlineQuery" ->
            {Document([id |-> Some(JsonText("query id")), from |-> Some(UserDocument),
                       query |-> Some(JsonText(query)),
                       offset |-> Some(JsonText("query offset"))]) :
                query \in {"query string", ""}}
      [] type = "ChosenInlineResult" ->
            {Document([result_id |-> Some(JsonText("result id")), from |-> Some(UserDocument),
                       query |-> Some(JsonText("q"))])}

ChatTypeStrings ==
    {"sender", "private", "group", "supergroup", "channel",
     "Sender", "PRIVATE", "secret", "super_group", ""}

\* C21: a document of a response model that lacks a required key is rejected;
\* a document that carries the required keys only is read, with every
\* optional field None (Game: text and animation; InlineQuery: chat_type and
\* location; ChosenInlineResult: location and inline_message_id); whenever a
\* document is read, the optional fields whose keys are absent are None;
\* InlineQueryChatType accepts exactly the strings sender, private, group,
\* supergroup and channel.
C21_OptionalAndRequiredFields ==
    /\ last.op = "from_value" /\ last.arg \in ResponseModels =>
          LET doc == json.val
              keys == DOMAIN doc.Object
          IN  /\ RequiredOf(last.arg) \ keys # {} =>
                    ~last.ok /\ is_none(parsed) /\ is_some(error)
              /\ last.ok =>
                    /\ RequiredOf(last.arg) \subseteq keys
                    /\ \A n \in OptionalOf(last.arg) \ keys : parsed.val[n] = None
              /\ doc \in MinimalDocuments(last.arg) =>
                    /\ last.ok /\ is_some(parsed)
                    /\ \A n \in OptionalOf(last.arg) : parsed.val[n] = None
              /\ last.arg = "InlineQuery" /\ Member(doc, "chat_type").j = "String"
                    /\ Member(doc, "chat_type").String
                          \notin {"sender", "private", "group", "supergroup", "channel"}
                    => ~last.ok
    /\ \A s \in ChatTypeStrings :
          TypeDeserialize("InlineQueryChatType", JsonText(s)).ok
              <=> s \in {"sender", "private", "group", "supergroup", "channel"}
    /\ \A type \in ResponseModels : \A doc \in MinimalDocuments(type) :
          \A k \in RequiredOf(type) :
              LET without == JsonValue("Object",
                                 [n \in (DOMAIN doc.Object) \ {k} |-> doc.Object[n]])
              IN  ~ResponseDeserialize(type, without).ok

\* the Game document of deserialize_game_partial, read
C21_Witness ==
    /\ last.op = "from_value" /\ last.arg = "Game" /\ last.ok
    /\ DOMAIN json.val.Object = {"title", "description", "photo"}
    /\ Len(parsed.val.photo) = 0
    /\ parsed.val.text = None /\ parsed.val.animation = None

----------------------------------------------------------------------------
(* Properties of the builders serialized to JSON, checked under SpecJson *)

\* the state right after a value of `type` was serialized
JustSerialized(type) ==
    /\ last.op \in {"into_request", "to_string"}
    /\ last.arg.type = type

\* the JSON text that serialization produced
Serialized == IF last.op = "into_request" THEN request.val.body.data ELSE json.val

\* a member that is expected exactly when the setter `key` was called;
\* `text` is the JSON text of the argument last passed to it
CalledMember(key, text) ==
    [key |-> key, present |-> WasCalled(key), text |-> IF WasCalled(key) THEN text ELSE ""]

\* the iteration orders of the allowed updates of the value serialized
SerializedOrders ==
    IF last.arg.type \in {"GetUpdates", "SetWebhook"}
    THEN IterationOrders(UpdatesOf(last.arg)) ELSE {<<>>}

AllowedUpdatesMember(order) ==
    [key |-> "allowed_updates",
     present |-> WasCalled("allowed_updates") \/ WasCalled("add_allowed_update"),
     text |-> AllowedUpdatesJson(order)]

\* the struct that was serialized, by itself or within InputMessageContent
Subject == IF last.arg.type = "InputMessageContent" THEN last.arg.content ELSE last.arg

\* the object expected for the value serialized: the mandatory fields and
\* one member for each setter called, holding the value last passed to it
ExpectedJson(type, order) ==
    CASE type = "GetUpdates" ->
            <<CalledMember("offset", IntegerText(called["offset"])),
              CalledMember("limit", IntegerText(called["limit"])),
              CalledMember("timeout", IntegerText(as_i64(as_secs(called["timeout"])))),
              AllowedUpdatesMember(order)>>
      [] type = "SetWebhook" ->
            <<Mandatory("url", JsonString(Subject.url)),
              CalledMember("certificate", JsonString(called["certificate"])),
              CalledMember("ip_address", JsonString(called["ip_address"])),
              CalledMember("max_connections", IntegerText(called["max_connections"])),
              AllowedUpdatesMember(order),
              CalledMember("drop_pending_updates", BoolText(called["drop_pending_updates"]))>>
      [] type = "InputMediaDocument" ->
            <<CalledMember("caption", JsonString(called["caption"])),
              CalledMember("parse_mode", JsonString(ParseModeText(called["parse_mode"]))),
              CalledMember("disable_content_type_detection",
                           BoolText(called["disable_content_type_detection"]))>>
      [] type = "ForceReply" ->
            <<Mandatory("force_reply", BoolText(Subject.force_reply)),
              CalledMember("input_field_placeholder",
                           JsonString(called["input_field_placeholder"])),
              CalledMember("selective", BoolText(called["selective"]))>>
      [] type = "InputMessageContentContact" ->
            <<Mandatory("phone_number", JsonString(Subject.phone_number)),
              Mandatory("first_name", JsonString(Subject.first_name)),
              CalledMember("last_name", JsonString(called["last_name"])),
              CalledMember("vcard", JsonString(called["vcard"]))>>
      [] type = "InputMessageContentLocation" ->
            <<Mandatory("latitude", FloatText(Subject.latitude)),
              Mandatory("longitude", FloatText(Subject.longitude)),
              CalledMember("horizontal_accuracy", FloatText(called["horizontal_accuracy"])),
              CalledMember("live_period", IntegerText(called["live_period"])),
              CalledMember("heading", IntegerText(called["heading"])),
              CalledMember("proximity_alert_radius",
                           IntegerText(called["proximity_alert_radius"]))>>
      [] type = "InputMessageContentVenue" ->
            <<Mandatory("latitude", FloatText(Subject.latitude)),
              Mandatory("longitude", FloatText(Subject.longitude)),
              Mandatory("title", JsonString(Subject.title)),
              Mandatory("address", JsonString(Subject.address)),
              CalledMember("foursquare_id", JsonString(called["foursquare_id"])),
              CalledMember("foursquare_type", JsonString(called["foursquare_type"])),
              CalledMember("google_place_id", JsonString(called["google_place_id"])),
              CalledMember("google_place_type", JsonString(called["google_place_type"]))>>

\* C19: the object serialized for a GetUpdates, SetWebhook,
\* InputMediaDocument, ForceReply or InputMessageContentContact / Location /
\* Venue holds the mandatory fields and the key of an optional parameter
\* exactly when its setter was called, with the value last passed, also when
\* that value is false, 0 or empty; with no setter called it is {} for
\* GetUpdates and InputMediaDocument, {"url":...} for SetWebhook and
\* {"force_reply":...} for ForceReply.
C19_KeyIffSetterCalled ==
    /\ \A type \in {"GetUpdates", "SetWebhook", "InputMediaDocument", "ForceReply",
                     "InputMessageContentContact", "InputMessageContentLocation",
                     "InputMessageContentVenue"} :
          JustSerialized(type) =>
              \E order \in SerializedOrders :
                  Serialized = JsonObject(MemberTexts(SkipNone(ExpectedJson(type, order))))
    /\ called = NoCalls =>
          /\ JustSerialized("GetUpdates") \/ JustSerialized("InputMediaDocument") =>
                Serialized = "{}"
          /\ JustSerialized("SetWebhook") =>
                Serialized = "{\"url\":\"" \o last.arg.url \o "\"}"
          /\ JustSerialized("ForceReply") =>
                Serialized = (IF last.arg.force_reply THEN "{\"force_reply\":true}"
                              ELSE "{\"force_reply\":false}")
    /\ /\ JustSerialized("ForceReply")
       /\ last.arg.force_reply
       /\ DOMAIN called = {"selective"}
       /\ called["selective"] = FALSE
       => Serialized = "{\"force_reply\":true,\"selective\":false}"

\* ForceReply::new(true).selective(false), serialized
C19_Witness ==
    /\ JustSerialized("ForceReply")
    /\ last.arg.force_reply
    /\ DOMAIN called = {"selective"}
    /\ called["selective"] = FALSE
    /\ Serialized = "{\"force_reply\":true,\"selective\":false}"

\* the number of add_allowed_update calls that follow allowed_updates
MaxAdds == 2

Assigned(self, set) ==
    IF self.type = "GetUpdates" THEN GetUpdates_allowed_updates(self, set)
    ELSE SetWebhook_allowed_updates(self, set)

RECURSIVE Added(_, _)
\* add_allowed_update called with each update of `updates` in turn
Added(self, updates) ==
    IF updates = <<>> THEN self
    ELSE LET next == IF self.type = "GetUpdates"
                     THEN GetUpdates_add_allowed_update(self, Head(updates))
                     ELSE SetWebhook_add_allowed_update(self, Head(updates))
         IN  Added(next, Tail(updates))

\* the array `items` holds the text of each update of `set` once and nothing else
EachOnce(items, set) ==
    /\ \A u \in set :
          Cardinality({i \in 1..Len(items) : items[i] = JsonString(AllowedUpdateText(u))}) = 1
    /\ \A i \in 1..Len(items) : \E u \in set : items[i] = JsonString(AllowedUpdateText(u))

\* the JSON text of the builder `self`, its set iterated in `order`
BuilderJson(self, order) ==
    IF self.type = "GetUpdates" THEN GetUpdatesJson(self, order) ELSE SetWebhookJson(self, order)

\* C18: on every GetUpdates and SetWebhook builder, allowed_updates(S) followed
\* by add_allowed_update(u1), ..., add_allowed_update(un) leaves the set
\* S \cup {u1..un}, serialized as an array that holds each of its elements
\* once in whatever order the set is iterated; add_allowed_update(u) on a
\* builder whose set was never assigned creates the set {u}; the converted
\* request carries the array of the builder's set.
C18_AllowedUpdatesSet ==
    /\ builder.type \in {"GetUpdates", "SetWebhook"} =>
        /\ \A set \in SUBSET AllowedUpdates : \A n \in 0..MaxAdds :
              \A updates \in [1..n -> AllowedUpdates] :
                  LET final == Added(Assigned(builder, set), updates)
                      expected == set \cup {updates[i] : i \in 1..n}
                  IN  /\ final.allowed_updates = Some(expected)
                      /\ \A order \in IterationOrders(final.allowed_updates.val) :
                            EachOnce(AllowedUpdateItems(order), expected)
        /\ is_none(builder.allowed_updates) =>
              \A u \in AllowedUpdates :
                  LET final == Added(builder, <<u>>)
                  IN  /\ final.allowed_updates = Some({u})
                      /\ Cardinality(final.allowed_updates.val) = 1
    /\ (Converted("GetUpdates") \/ Converted("SetWebhook")) /\ is_some(last.arg.allowed_updates) =>
          \E order \in IterationOrders(last.arg.allowed_updates.val) :
              /\ request.val.body.data = BuilderJson(last.arg, order)
              /\ EachOnce(AllowedUpdateItems(order), last.arg.allowed_updates.val)

\* a GetUpdates converted after allowed_updates(S) and add_allowed_update(u)
\* with u not in S: its set is S with u added
C18_Witness ==
    /\ Converted("GetUpdates")
    /\ WasCalled("allowed_updates") /\ WasCalled("add_allowed_update")
    /\ called["add_allowed_update"] \notin called["allowed_updates"]
    /\ called["allowed_updates"] # {}
    /\ last.arg.allowed_updates = Some(called["allowed_updates"] \cup {called["add_allowed_update"]})

\* the fields of an InputMessageContentText that entities and parse_mode leave alone
OtherFields(self) == <<self.message_text, self.disable_web_page_preview>>

\* the object expected for the InputMessageContentText serialized
ExpectedTextJson ==
    <<Mandatory("message_text", JsonString(Subject.message_text)),
      [key |-> "entities", present |-> is_some(Subject.entities),
       text |-> IF WasCalled("entities") THEN FieldText("caption_entities", called["entities"])
                ELSE ""],
      [key |-> "parse_mode",
       present |-> is_none(Subject.entities) /\ WasCalled("parse_mode"),
       text |-> IF WasCalled("parse_mode")
                THEN JsonString(ParseModeText(called["parse_mode"])) ELSE ""],
      CalledMember("disable_web_page_preview",
                   BoolText(called["disable_web_page_preview"]))>>

\* C20: an InputMessageContentText holds at most one of entities and
\* parse_mode, the one whose setter was called later, with the value passed;
\* its JSON never has both keys; message_text and disable_web_page_preview
\* are not affected by the two setters.
C20_TextExclusivity ==
    /\ builder.type = "InputMessageContentText" =>
        /\ ~(is_some(builder.entities) /\ is_some(builder.parse_mode))
        /\ WasCalled("entities") \/ WasCalled("parse_mode") =>
              is_some(builder.entities) # is_some(builder.parse_mode)
        /\ last.op = "entities" =>
              builder.entities = Some(last.arg) /\ is_none(builder.parse_mode)
        /\ last.op = "parse_mode" =>
              builder.parse_mode = Some(last.arg) /\ is_none(builder.entities)
        /\ is_some(builder.entities) => builder.entities.val = called["entities"]
        /\ is_some(builder.parse_mode) => builder.parse_mode.val = called["parse_mode"]
        /\ \A e \in EntityLists :
              OtherFields(InputMessageContentText_entities(builder, e)) = OtherFields(builder)
        /\ \A m \in ParseModes \cup {"Html"} :
              OtherFields(InputMessageContentText_parse_mode(builder, m)) = OtherFields(builder)
    /\ JustSerialized("InputMessageContentText") =>
          Serialized = JsonObject(MemberTexts(SkipNone(ExpectedTextJson)))

\* new("text").entities([bold]).parse_mode(Html).disable_web_page_preview(true),
\* serialized: the parse mode, set later, is the one written
C20_Witness ==
    /\ JustSerialized("InputMessageContentText")
    /\ WasCalled("entities") /\ called["entities"] = <<TextEntityBold(0, 10)>>
    /\ Serialized =
          "{\"message_text\":\"text\",\"parse_mode\":\"HTML\",\"disable_web_page_preview\":true}"

\* an Integer below zero
Negative(v) == v.hi < 0 \/ (v.hi = 0 /\ v.lo < 0)

\* a u64 second count that is at most i64::MAX = 2 * 2^62 - 1
FitsI64(u) == u.hi < 2 \/ (u.hi = 2 /\ u.lo < 0)

\* C26: GetUpdates::timeout(d) stores the whole seconds of d, the sub-second
\* part dropped, as an i64, and the timeout stored and serialized is never
\* negative, for every Duration d, also one of more than i64::MAX seconds.
C26_TimeoutNeverNegative ==
    /\ builder.type = "GetUpdates" /\ last.op = "timeout" =>
          /\ is_some(builder.timeout)
          /\ FitsI64(last.arg.secs) => builder.timeout.val = last.arg.secs
          /\ ~Negative(builder.timeout.val)
    /\ builder.type = "GetUpdates" /\ is_some(builder.timeout) =>
          ~Negative(builder.timeout.val)
    /\ Converted("GetUpdates") /\ is_some(last.arg.timeout) =>
          /\ ~Negative(last.arg.timeout.val)
          /\ \E order \in SerializedOrders :
                request.val.body.data = GetUpdatesJson(last.arg, order)

\* What timeout does guarantee: for a Duration of at most i64::MAX seconds the
\* timeout stored and serialized is its whole seconds, which is not negative;
\* a longer Duration is stored as its second count minus 2^64.
TimeoutWithinI64 ==
    /\ builder.type = "GetUpdates" /\ last.op = "timeout" =>
          /\ is_some(builder.timeout)
          /\ IF FitsI64(last.arg.secs)
             THEN builder.timeout.val = last.arg.secs /\ ~Negative(builder.timeout.val)
             ELSE /\ builder.timeout.val = [hi |-> last.arg.secs.hi - 4, lo |-> last.arg.secs.lo]
                  /\ Negative(builder.timeout.val)
    /\ Converted("GetUpdates") /\ is_some(last.arg.timeout) =>
          \E order \in SerializedOrders :
              request.val.body.data = GetUpdatesJson(last.arg, order)

\* SendVoice builders with and without a parse mode or a list of entities
VoiceBuilders ==
    LET new == {SendVoiceNew(a[1], a[2]) : a \in NewVoiceArgs}
        captioned == new \cup {SendVoice_caption(self, "caption") : self \in new}
        moded == {SendVoice_parse_mode(self, m) : self \in captioned, m \in ParseModes}
        listed == {SendVoice_caption_entities(self, Ok("[{}]")).val : self \in captioned}
    IN  captioned \cup moded \cup listed

\* C27: the exclusivity rule applies to the empty list of entities as to any
\* other: a successful SendVoice::caption_entities(&[]) leaves a field
\* caption_entities holding [] and no field parse_mode;
\* InputMessageContentText::entities(vec![]) leaves entities holding the empty
\* list, written as the key entities with the value [], and no parse mode.
C27_EmptyListExclusivity ==
    /\ builder.type = "InputMessageContentText" /\ last.op = "entities" /\ last.arg = <<>> =>
          /\ builder.entities = Some(<<>>)
          /\ builder.parse_mode = None
          /\ to_string(builder) = JsonObject(MemberTexts(SkipNone(<<
                Mandatory("message_text", JsonString(builder.message_text)),
                Mandatory("entities", "[]"),
                CalledMember("disable_web_page_preview",
                             BoolText(called["disable_web_page_preview"]))>>)))
    /\ /\ JustSerialized("InputMessageContentText")
       /\ is_some(last.arg.entities) /\ called["entities"] = <<>>
       => /\ last.arg.entities = Some(<<>>)
          /\ last.arg.parse_mode = None
          /\ Serialized = JsonObject(MemberTexts(SkipNone(<<
                Mandatory("message_text", JsonString(last.arg.message_text)),
                Mandatory("entities", "[]"),
                CalledMember("disable_web_page_preview",
                             BoolText(called["disable_web_page_preview"]))>>)))
    /\ \A self \in VoiceBuilders : \A serialized \in serialize_text_entities(<<>>) :
          serialized.ok =>
              LET result == SendVoice_caption_entities(self, serialized)
              IN  /\ result.ok
                  /\ HoldsOnce(result.val.form, "caption_entities", "[]")
                  /\ ~HasField(result.val.form, "parse_mode")
                  /\ Changed(self.form, result.val.form)
                        \subseteq {"caption_entities", "parse_mode"}

\* new("text").parse_mode(m).entities(vec![]), serialized
C27_Witness ==
    /\ JustSerialized("InputMessageContentText")
    /\ WasCalled("parse_mode")
    /\ WasCalled("entities") /\ called["entities"] = <<>>
    /\ last.arg.entities = Some(<<>>)
    /\ Serialized = "{\"message_text\":\"text\",\"entities\":[]}"

\* the parameters of a GetUpdates or SetWebhook other than allowed_updates
OtherParameters(self) ==
    IF self.type = "GetUpdates" THEN <<self.offset, self.limit, self.timeout>>
    ELSE <<self.url, self.certificate, self.ip_address, self.max_connections,
           self.drop_pending_updates>>

\* the value a parameter holds according to the calls made: that of the last
\* call of its setter, None when the setter was never called
AsCalled(name) == IF WasCalled(name) THEN Some(called[name]) ELSE None

\* C28: on every step of a GetUpdates or SetWebhook builder, allowed_updates(S)
\* leaves the set S, whatever was assigned or added before, and
\* add_allowed_update(u) leaves the set of the builder with u added, so the
\* set is S with the updates added after the last allowed_updates call;
\* neither changes another parameter (offset, limit, timeout; url,
\* certificate, ip_address, max_connections, drop_pending_updates), each of
\* which holds what its own setter stored.
C28_AssignReplaces ==
    [][builder'.type \in {"GetUpdates", "SetWebhook"} =>
          /\ last'.op = "allowed_updates" =>
                /\ builder'.allowed_updates = Some(last'.arg)
                /\ OtherParameters(builder') = OtherParameters(builder)
          /\ last'.op = "add_allowed_update" =>
                /\ builder'.allowed_updates = Some(UpdatesOf(builder) \cup {last'.arg})
                /\ OtherParameters(builder') = OtherParameters(builder)
          /\ last'.op \notin {"allowed_updates", "add_allowed_update"} =>
                builder'.allowed_updates
                    = (IF builder.type = builder'.type THEN builder.allowed_updates ELSE None)
          /\ builder'.type = "GetUpdates" =>
                /\ builder'.offset = AsCalled("offset")'
                /\ builder'.limit = AsCalled("limit")'
                /\ is_some(builder'.timeout) <=> WasCalled("timeout")'
          /\ builder'.type = "SetWebhook" =>
                /\ builder'.certificate = AsCalled("certificate")'
                /\ builder'.ip_address = AsCalled("ip_address")'
                /\ builder'.max_connections = AsCalled("max_connections")'
                /\ builder'.drop_pending_updates = AsCalled("drop_pending_updates")'
                /\ last'.op = "SetWebhook::new" => builder'.url = last'.arg
                /\ builder.type = "SetWebhook" => builder'.url = builder.url]_vars

\* allowed_updates(S) called on a GetUpdates that held an update outside S
\* and an offset: the set is S, the offset is kept
C28_Witness ==
    /\ builder.type = "GetUpdates"
    /\ last.op = "allowed_updates"
    /\ WasCalled("add_allowed_update")
    /\ called["add_allowed_update"] \notin last.arg
    /\ builder.allowed_updates = Some(last.arg)
    /\ WasCalled("offset") /\ builder.offset = Some(called["offset"])

\* C23: InputMessageContent is serialized without a discriminator: for each
\* variant (Contact, Location, Text, Venue) the JSON of the enum is the JSON
\* of the struct it wraps, an object of the struct's mandatory fields and of
\* the optional fields that were set, with no type key and no other key.
C23_UntaggedContent ==
    JustSerialized("InputMessageContent") =>
        /\ last.arg.variant \in {"Contact", "Location", "Text", "Venue"}
        /\ Serialized = to_string(last.arg.content)
        /\ Serialized = JsonObject(MemberTexts(SkipNone(
                IF last.arg.variant = "Text" THEN ExpectedTextJson
                ELSE ExpectedJson(last.arg.content.type, <<>>))))
        /\ last.arg.variant = "Contact" /\ called = NoCalls =>
              Serialized = "{\"phone_number\":\"+79001231212\",\"first_name\":\"Vasya\"}"
        /\ /\ last.arg.variant = "Contact"
           /\ DOMAIN called = {"last_name", "vcard"}
           /\ called["vcard"] = "vcard"
           => Serialized = "{\"phone_number\":\"+79001231212\",\"first_name\":\"Vasya\","
                              \o "\"last_name\":\"Pupkin\",\"vcard\":\"vcard\"}"
        /\ /\ last.arg.variant = "Text"
           /\ last.arg.content.message_text = "text"
           /\ DOMAIN called = {"parse_mode", "entities"}
           /\ called["entities"] = <<TextEntityBold(0, 10)>>
           /\ is_some(last.arg.content.entities)
           => Serialized = "{\"message_text\":\"text\",\"entities\":"
                              \o "[{\"type\":\"bold\",\"offset\":0,\"length\":10}]}"

\* the contact of tests::serialize_contact, wrapped and serialized
C23_Witness ==
    /\ JustSerialized("InputMessageContent")
    /\ last.arg.variant = "Contact"
    /\ DOMAIN called = {"last_name", "vcard"}
    /\ called["vcard"] = "vcard"
    /\ Serialized = "{\"phone_number\":\"+79001231212\",\"first_name\":\"Vasya\","
                       \o "\"last_name\":\"Pupkin\",\"vcard\":\"vcard\"}"

============================================================================
